---- MODULE Spec2Model ----
(***************************************************************************)
(* Replay parser of teehistorian chunk streams (src/src/parser.rs), its    *)
(* tick state (src/src/tick.rs) and the per-file loop of the extractor     *)
(* (src/src/extractor.rs), as a state machine over one file's chunks       *)
(* (Spec); the cleaner of src/src/preprocess.rs on one sequence            *)
(* (SpecClean); the Exporter of src/src/export.rs over batches of files    *)
(* (SpecExport); the parallel parsing of one batch of paths in             *)
(* Exporter::handle_batch (SpecPool).                                      *)
(***************************************************************************)
EXTENDS Integers, Sequences, FiniteSets, TLC

VARIABLES
    parser,       \* the Parser of the file: its fields, and in `result` what
                  \* the last parse_chunk call produced
    pc,           \* position of Extractor::get_ddnet_sequences
    sequences,    \* value returned by Extractor::get_ddnet_sequences
    decoder,      \* the chunks still to come from th.next_chunk()
    input_total,  \* per cid: limb sums of InputNew + all InputDiff since
    s1,           \* how many chunks of scenario S1 the stream matched so far
    s2,           \* ... of scenario S2
    s3,           \* ... of scenario S3
    cleaner,      \* a sequence on its way through the cleaner of handle_batch
    exporter,     \* the Exporter of a run that writes the dataset
    dry_exporter, \* the Exporter of a run with dry_run, given the same batches
    export_config,\* the ExportConfig both runs were started with
    batches,      \* the batches handled so far, a list of files each
    added,        \* the sequences given to add_to_dataset so far, in order
    alias,        \* what the last print_alias_candidates call computed
    pool          \* the workers parsing the paths of one batch in parallel

vars == <<parser, pc, sequences, decoder, input_total, s1, s2, s3, cleaner,
          exporter, dry_exporter, export_config, batches, added, alias, pool>>

\* the state of the export
export_vars == <<exporter, dry_exporter, export_config, batches, added, alias>>

\* the state of the per-file loop
file_vars == <<parser, pc, sequences, decoder, input_total, s1, s2, s3>>

\* the fields of the parser
finished == parser.finished
tick_index == parser.tick_index
chunk_index == parser.chunk_index
last_cid == parser.last_cid
current_tick == parser.current_tick
previous_ticks == parser.previous_ticks
active_sequences == parser.active_sequences
completed_sequences == parser.completed_sequences
player_names == parser.player_names
cut_kill == parser.cut_kill
cut_rescue == parser.cut_rescue
parse_status == parser.result

----------------------------------------------------------------------------
(* Bounds of the model *)

\* chunks of a file that follow its preamble
MaxChunks == 3

\* ticks per file
MaxTick == 9

\* ticks of a sequence given to the cleaner
MaxSeqLen == 6

\* largest afk_ticks, afk_padding and seq_length of the export configuration
MaxAfkTicks == 2
MaxPadding == 3
MaxSeqLength == 3

\* files of a run of the exporter, over all its batches
MaxFiles == 3

\* largest dt of a TickSkip chunk
MaxDt == 1

\* client ids are 0 .. MaxCid
MaxCid == 1

----------------------------------------------------------------------------
(* Program constants *)

\* length of an input vector, [i32; 10]
InputLen == 10

\* threshold of the teleport cut, `player_diff.dx > 500`
MAX_STEP == 500

\* bound of the velocity assertion, `max_vel_x < 500`
MAX_VEL == 500

\* `sequence.input_vectors.len() < 3`
MIN_INPUTS == 3

\* start of the sequence that follows a cut, `self.tick_index + 2`
CUT_SKIP == 2

\* i32::MAX
I32_MAX == 2147483647

\* the limb base used to state sums modulo 2^32
LIMB == 2 ^ 16

I32_MIN == -I32_MAX - 1

----------------------------------------------------------------------------
(* Option and HashMap *)

None == <<>>
Some(v) == <<v>>
is_some(o) == o /= <<>>
unwrap(o) == o[1]

contains_key(m, k) == k \in DOMAIN m
insert(m, k, v) == [x \in (DOMAIN m) \cup {k} |-> IF x = k THEN v ELSE m[x]]
remove(m, k) == [x \in (DOMAIN m) \ {k} |-> m[x]]
EmptyMap == [x \in {} |-> 0]

----------------------------------------------------------------------------
(* The chunks the framing decoder delivers (teehistorian::Chunk) *)

Cids == 0 .. MaxCid

\* absolute input vectors of InputNew chunks; the second one sits at the
\* edges of the i32 range
InputVecs ==
    { <<1, 0, 0, 0, 0, 0, 0, 0, 0, 0>>,
      <<-1, I32_MAX - 2, I32_MIN + 1, 1, 3, 1, 0, 0, 0, 0>> }

\* deltas of InputDiff chunks
InputDiffs == { <<0, 5, -3, 0, 0, 0, 0, 0, 0, 0>> }

\* (x, y) of PlayerNew chunks
StartPositions == { <<10, 20>> }

\* (dx, dy) of PlayerDiff chunks: small steps, steps beyond the threshold
\* of either sign, and a step exactly at the threshold
PositionDiffs == { <<2, -1>>, <<1, 0>>, <<600, 0>>, <<-600, 0>>, <<0, -600>>, <<500, 0>> }

PlayerNames == { "Alice" }

\* what the net-message sub-decoder makes of a NetMessage chunk's bytes
NetMsgs ==
    { [kind |-> "ClStartInfo", name |-> n] : n \in PlayerNames }
        \cup { [kind |-> "ClKill"], [kind |-> "ClSetTeam"], [kind |-> "Undecodable"] }

ConsoleCmds == { "r", "say" }

TickSkipChunks == { [type |-> "TickSkip", dt |-> d] : d \in 0 .. MaxDt }
InputNewChunks == { [type |-> "InputNew", cid |-> c, input |-> v] : c \in Cids, v \in InputVecs }
InputDiffChunks == { [type |-> "InputDiff", cid |-> c, dinput |-> d] : c \in Cids, d \in InputDiffs }
PlayerNewChunks == { [type |-> "PlayerNew", cid |-> c, x |-> q[1], y |-> q[2]] : c \in Cids, q \in StartPositions }
PlayerDiffChunks == { [type |-> "PlayerDiff", cid |-> c, dx |-> q[1], dy |-> q[2]] : c \in Cids, q \in PositionDiffs }
PlayerOldChunks == { [type |-> "PlayerOld", cid |-> c] : c \in Cids }
DropChunks == { [type |-> "Drop", cid |-> c] : c \in Cids }
NetMessageChunks == { [type |-> "NetMessage", cid |-> c, msg |-> m] : c \in Cids, m \in NetMsgs }
ConsoleCommandChunks == { [type |-> "ConsoleCommand", cid |-> c, cmd |-> k] : c \in Cids \cup {-1}, k \in ConsoleCmds }

UnhandledTypes == { "PlayerSwap", "RejoinVer6", "TeamLoadSuccess" }
IgnoredTypes == { "PlayerReady", "Join", "JoinVer6" }
UntrackedTypes == { "Message" }
BareChunks == { [type |-> t] : t \in {"Eos"} \cup UnhandledTypes \cup IgnoredTypes \cup UntrackedTypes }

Chunks ==
    TickSkipChunks \cup InputNewChunks \cup InputDiffChunks \cup PlayerNewChunks
        \cup PlayerDiffChunks \cup PlayerOldChunks \cup DropChunks
        \cup NetMessageChunks \cup ConsoleCommandChunks \cup BareChunks

----------------------------------------------------------------------------
(* Tick (src/src/tick.rs).  An operation that can panic returns the tick   *)
(* it leaves behind and whether it panicked.                               *)

Tick_new == [input_vectors |-> EmptyMap, player_positions |-> EmptyMap]

Done(t) == [tick |-> t, panicked |-> FALSE]
Panicked(t) == [tick |-> t, panicked |-> TRUE]

\* mutant of wrapping_add: i32::saturating_add
saturating_add(a, b) ==
    IF b > 0 /\ a > I32_MAX - b THEN I32_MAX
    ELSE IF b < 0 /\ a < I32_MIN - b THEN I32_MIN
    ELSE a + b

\* i32::wrapping_add, computed without leaving the i32 range
wrapping_add(a, b) ==
    IF b > 0 /\ a > I32_MAX - b THEN (a - I32_MAX - 1) + (b - I32_MAX - 1)
    ELSE IF b < 0 /\ a < I32_MIN - b THEN (a + I32_MAX + 1) + (b + I32_MAX + 1)
    ELSE a + b

add_init_position(t, new_player) ==
    IF contains_key(t.player_positions, new_player.cid)
    THEN Panicked(t)
    ELSE Done([t EXCEPT !.player_positions =
                   insert(@, new_player.cid, <<new_player.x, new_player.y>>)])

add_init_input(t, input_new) ==
    IF contains_key(t.input_vectors, input_new.cid)
    THEN Panicked(t)
    ELSE Done([t EXCEPT !.input_vectors = insert(@, input_new.cid, input_new.input)])

\* mutant of apply_input_diff: a diff for a cid without input vector
\* creates one
apply_input_diff_create(t, input_diff) ==
    IF ~contains_key(t.input_vectors, input_diff.cid)
    THEN [t EXCEPT !.input_vectors = insert(@, input_diff.cid, input_diff.dinput)]
    ELSE [t EXCEPT !.input_vectors[input_diff.cid] =
              [i \in 1 .. InputLen |-> wrapping_add(@[i], input_diff.dinput[i])]]

apply_input_diff(t, input_diff) ==
    IF ~contains_key(t.input_vectors, input_diff.cid)
    THEN t
    ELSE [t EXCEPT !.input_vectors[input_diff.cid] =
              [i \in 1 .. InputLen |-> wrapping_add(@[i], input_diff.dinput[i])]]

apply_position_diff(t, player_diff) ==
    IF ~contains_key(t.player_positions, player_diff.cid)
    THEN Panicked(t)
    ELSE Done([t EXCEPT !.player_positions[player_diff.cid] =
                   <<@[1] + player_diff.dx, @[2] + player_diff.dy>>])

remove_player_position(t, cid) ==
    IF ~contains_key(t.player_positions, cid)
    THEN Panicked(t)
    ELSE Done([t EXCEPT !.player_positions = remove(@, cid)])

----------------------------------------------------------------------------
(* Parser (src/src/parser.rs).  Every handler maps the parser, a record of *)
(* its fields, to the parser it leaves behind; the field `result` is what  *)
(* the call produced: "Ok", one of the ParseError variants, or "panic"     *)
(* when the call unwound (a failed assert!, unwrap or expect).             *)

ParseErrors == { "NetMsgParseError", "UnhandledChunkError", "UnexpectedParserState" }

Err(p, e) == [p EXCEPT !.result = e]
Panic(p) == [p EXCEPT !.result = "panic"]

DDNetSequence_new(cid, start_tick) ==
    [ cid |-> cid,
      start_tick |-> start_tick,
      end_tick |-> None,
      player_name |-> None,
      teehist_path |-> None,
      input_vectors |-> <<>>,
      player_positions |-> <<>> ]

Parser_new(kill, rescue) ==
    [ finished |-> FALSE,
      tick_index |-> 0,
      chunk_index |-> 0,
      last_cid |-> None,
      current_tick |-> Tick_new,
      previous_ticks |-> <<>>,
      active_sequences |-> EmptyMap,
      completed_sequences |-> <<>>,
      player_names |-> EmptyMap,
      cut_kill |-> kill,
      cut_rescue |-> rescue,
      result |-> "Ok" ]

\* `for _ in 0..(dt + 1) { self.previous_ticks.push(self.current_tick.clone()) }`
push_copies(ticks, t, n) == ticks \o [i \in 1 .. n |-> t]

\* mutant of handle_tick_skip: `for _ in 0..dt`, one snapshot short
handle_tick_skip_short(p, dt, implicit) ==
    [p EXCEPT !.tick_index = @ + 1 + dt,
              !.previous_ticks = push_copies(@, p.current_tick, dt),
              !.last_cid = IF implicit THEN @ ELSE None]

\* mutant of handle_tick_skip: the snapshots already taken are overwritten
\* with the current tick
handle_tick_skip_retouch(p, dt, implicit) ==
    [p EXCEPT !.tick_index = @ + 1 + dt,
              !.previous_ticks = push_copies(<<>>, p.current_tick, Len(@) + dt + 1),
              !.last_cid = IF implicit THEN @ ELSE None]

handle_tick_skip(p, dt, implicit) ==
    [p EXCEPT !.tick_index = @ + 1 + dt,
              !.previous_ticks = push_copies(@, p.current_tick, dt + 1),
              !.last_cid = IF implicit THEN @ ELSE None]

\* mutant of check_implicit_tick: `cid < last`, as the format's documentation
\* has it
check_implicit_tick_strict(p, cid) ==
    IF is_some(p.last_cid) /\ cid < unwrap(p.last_cid)
    THEN [handle_tick_skip(p, 0, TRUE) EXCEPT !.last_cid = Some(cid)]
    ELSE [p EXCEPT !.last_cid = Some(cid)]

check_implicit_tick(p, cid) ==
    IF is_some(p.last_cid) /\ cid <= unwrap(p.last_cid)
    THEN [handle_tick_skip(p, 0, TRUE) EXCEPT !.last_cid = Some(cid)]
    ELSE [p EXCEPT !.last_cid = Some(cid)]

\* the parser after a Tick method ran on its current tick: unwound if the
\* method panicked
set_tick(p, r) ==
    IF r.panicked THEN Panic(p) ELSE [p EXCEPT !.current_tick = r.tick]

handle_input_new(p, input_new) ==
    set_tick(p, add_init_input(p.current_tick, input_new))

handle_input_diff(p, input_diff) ==
    [p EXCEPT !.current_tick = apply_input_diff(@, input_diff)]

\* `.iter().skip(n).take(m)`
skip_take(s, n, m) ==
    SubSeq(s, n + 1, IF n + m < Len(s) THEN n + m ELSE Len(s))

\* mutant of walk_tick: a tick without input is skipped and start_tick kept
walk_tick_keep_start(w, tick, cid) ==
    IF w.panicked THEN w
    ELSE IF ~contains_key(tick.input_vectors, cid) THEN w
    ELSE IF ~contains_key(tick.player_positions, cid) THEN [w EXCEPT !.panicked = TRUE]
    ELSE [w EXCEPT !.sequence.input_vectors = Append(@, tick.input_vectors[cid]),
                   !.sequence.player_positions = Append(@, tick.player_positions[cid])]

\* the for_each closure of complete_active_sequence on one tick of the span;
\* `w` is the sequence so far and whether an expect of the closure failed
walk_tick(w, tick, cid) ==
    IF w.panicked THEN w
    ELSE IF ~contains_key(tick.input_vectors, cid)
    THEN [w EXCEPT !.sequence.start_tick = @ + 1]
    ELSE IF ~contains_key(tick.player_positions, cid) THEN [w EXCEPT !.panicked = TRUE]
    ELSE [w EXCEPT !.sequence.input_vectors = Append(@, tick.input_vectors[cid]),
                   !.sequence.player_positions = Append(@, tick.player_positions[cid])]

\* the for_each over the ticks of the span, in order
walk_ticks(ticks, cid, sequence) ==
    LET walk[k \in 0 .. Len(ticks)] ==
            IF k = 0 THEN [sequence |-> sequence, panicked |-> FALSE]
            ELSE walk_tick(walk[k - 1], ticks[k], cid)
    IN  walk[Len(ticks)]

\* `.windows(2).map(|w| w[1].c - w[0].c)`, as a set
velocities(positions, c) ==
    { positions[i + 1][c] - positions[i][c] : i \in 1 .. Len(positions) - 1 }

\* `.max()` of a non-empty set
max_of(S) == CHOOSE m \in S : \A v \in S : v <= m

\* `assert!(max_vel_y < 500 && max_vel_x < 500)`
velocity_ok(positions) ==
    max_of(velocities(positions, 2)) < MAX_VEL /\ max_of(velocities(positions, 1)) < MAX_VEL

\* mutant of too_short: `< 2`
too_short_two(sequence) == Len(sequence.input_vectors) < MIN_INPUTS - 1

\* `if sequence.input_vectors.len() < 3 { return Ok(()) }`
too_short(sequence) == Len(sequence.input_vectors) < MIN_INPUTS

\* mutant of detach: the new sequence starts at the tick of the close
detach_no_skip(p, cid, drop_player) ==
    IF drop_player
    THEN set_tick([p EXCEPT !.active_sequences = remove(@, cid)],
                  remove_player_position(p.current_tick, cid))
    ELSE [p EXCEPT !.active_sequences =
             insert(@, cid, DDNetSequence_new(cid, p.tick_index))]

\* mutant of detach: with drop_player the position stays in the current tick
detach_keep_position(p, cid, drop_player) ==
    IF drop_player
    THEN [p EXCEPT !.active_sequences = remove(@, cid)]
    ELSE [p EXCEPT !.active_sequences =
             insert(@, cid, DDNetSequence_new(cid, p.tick_index + CUT_SKIP))]

\* mutant of detach: the new sequence starts one tick after the cut
detach_skip_one(p, cid, drop_player) ==
    IF drop_player
    THEN set_tick([p EXCEPT !.active_sequences = remove(@, cid)],
                  remove_player_position(p.current_tick, cid))
    ELSE [p EXCEPT !.active_sequences =
             insert(@, cid, DDNetSequence_new(cid, p.tick_index + 1))]

\* complete_active_sequence, lines 314-327: the cid's sequence is out of
\* active_sequences; its position goes too, or a new sequence is installed
detach(p, cid, drop_player) ==
    IF drop_player
    THEN set_tick([p EXCEPT !.active_sequences = remove(@, cid)],
                  remove_player_position(p.current_tick, cid))
    ELSE [p EXCEPT !.active_sequences =
             insert(@, cid, DDNetSequence_new(cid, p.tick_index + CUT_SKIP))]

\* complete_active_sequence, lines 368-399: the checks on the walked sequence
\* and the push
emit(p, walked) ==
    IF walked.panicked THEN Panic(p)
    ELSE IF Len(walked.sequence.player_positions) < 2 THEN Panic(p)
    ELSE IF ~velocity_ok(walked.sequence.player_positions) THEN Panic(p)
    ELSE IF too_short(walked.sequence) THEN p
    ELSE [p EXCEPT !.completed_sequences = Append(@, walked.sequence)]

\* mutant of close: `if sequence.start_tick > self.tick_index`
close_after_start(p, taken, cid) ==
    IF p.result = "panic" THEN p
    ELSE IF taken.start_tick > p.tick_index THEN p
    ELSE IF ~contains_key(p.player_names, cid) THEN Panic(p)
    ELSE emit(p, walk_ticks(skip_take(p.previous_ticks, taken.start_tick,
                                      p.tick_index - taken.start_tick),
                            cid,
                            [taken EXCEPT !.end_tick = Some(p.tick_index),
                                          !.player_name = Some(p.player_names[cid])]))

\* complete_active_sequence, lines 329-366: `p` is the parser after detach,
\* `taken` the sequence removed from active_sequences
close(p, taken, cid) ==
    IF p.result = "panic" THEN p
    ELSE IF taken.start_tick >= p.tick_index THEN p
    ELSE IF ~contains_key(p.player_names, cid) THEN Panic(p)
    ELSE emit(p, walk_ticks(skip_take(p.previous_ticks, taken.start_tick,
                                      p.tick_index - taken.start_tick),
                            cid,
                            [taken EXCEPT !.end_tick = Some(p.tick_index),
                                          !.player_name = Some(p.player_names[cid])]))

\* mutant of complete_active_sequence: without `drop_player` a sequence
\* is installed also for a cid that had none
complete_active_sequence_install(p, cid, drop_player) ==
    IF ~contains_key(p.active_sequences, cid)
    THEN Err(IF drop_player THEN p ELSE detach(p, cid, drop_player), "UnexpectedParserState")
    ELSE close(detach(p, cid, drop_player), p.active_sequences[cid], cid)

complete_active_sequence(p, cid, drop_player) ==
    IF ~contains_key(p.active_sequences, cid)
    THEN Err(p, "UnexpectedParserState")
    ELSE close(detach(p, cid, drop_player), p.active_sequences[cid], cid)

\* mutant of handle_net_message: ClKill cuts whatever cut_kill says
handle_net_message_always_cut(p, net_msg) ==
    IF net_msg.msg.kind = "Undecodable" THEN Err(p, "NetMsgParseError")
    ELSE IF net_msg.msg.kind = "ClStartInfo"
    THEN [p EXCEPT !.player_names = insert(@, net_msg.cid, net_msg.msg.name)]
    ELSE IF net_msg.msg.kind = "ClKill"
    THEN complete_active_sequence(p, net_msg.cid, FALSE)
    ELSE p

handle_net_message(p, net_msg) ==
    IF net_msg.msg.kind = "Undecodable" THEN Err(p, "NetMsgParseError")
    ELSE IF net_msg.msg.kind = "ClStartInfo"
    THEN [p EXCEPT !.player_names = insert(@, net_msg.cid, net_msg.msg.name)]
    ELSE IF net_msg.msg.kind = "ClKill" /\ p.cut_kill
    THEN complete_active_sequence(p, net_msg.cid, FALSE)
    ELSE p

\* handle_player_new after its check_implicit_tick
open_sequence(p, player_new) ==
    set_tick([p EXCEPT !.active_sequences =
                 insert(@, player_new.cid, DDNetSequence_new(player_new.cid, p.tick_index))],
             add_init_position(p.current_tick, player_new))

handle_player_new(p, player_new) ==
    open_sequence(check_implicit_tick(p, player_new.cid), player_new)

\* `player_diff.dx > 500 || player_diff.dy > 500`
high_diff(player_diff) == player_diff.dx > MAX_STEP \/ player_diff.dy > MAX_STEP

\* `self.current_tick.apply_position_diff(player_diff)`, reached unless the
\* close before it returned an error or panicked
move(p, player_diff) ==
    IF p.result /= "Ok" THEN p
    ELSE set_tick(p, apply_position_diff(p.current_tick, player_diff))

\* handle_player_diff after its check_implicit_tick
cut_or_move(p, player_diff) ==
    IF ~high_diff(player_diff) THEN move(p, player_diff)
    ELSE IF ~contains_key(p.active_sequences, player_diff.cid) THEN Panic(p)
    ELSE IF p.tick_index >= p.active_sequences[player_diff.cid].start_tick
    THEN move(complete_active_sequence(p, player_diff.cid, FALSE), player_diff)
    ELSE move(p, player_diff)

handle_player_diff(p, player_diff) ==
    cut_or_move(check_implicit_tick(p, player_diff.cid), player_diff)

handle_player_old(p, player_old) ==
    complete_active_sequence(check_implicit_tick(p, player_old.cid), player_old.cid, TRUE)

handle_console_command(p, command) ==
    IF command.cid = -1 THEN p
    ELSE IF p.cut_rescue /\ command.cmd = "r"
    THEN complete_active_sequence(p, command.cid, FALSE)
    ELSE p

\* one turn of the loop of handle_eos: `self.complete_active_sequence(cid, true)?`
complete_next(p, cid) ==
    IF p.result /= "Ok" THEN p ELSE complete_active_sequence(p, cid, TRUE)

\* mutant of handle_eos: `finished` is not set
handle_eos_unfinished(p, cids) ==
    LET loop[k \in 0 .. Len(cids)] ==
            IF k = 0 THEN p
            ELSE complete_next(loop[k - 1], cids[k])
    IN  loop[Len(cids)]

\* handle_eos; `cids` are the keys of active_sequences in the order the
\* HashMap yields them
handle_eos(p, cids) ==
    LET loop[k \in 0 .. Len(cids)] ==
            IF k = 0 THEN [p EXCEPT !.finished = TRUE]
            ELSE complete_next(loop[k - 1], cids[k])
    IN  loop[Len(cids)]

\* mutant of handle_drop: the position is cleared with the input
handle_drop_position(p, drop) ==
    [p EXCEPT !.current_tick.input_vectors = remove(@, drop.cid),
              !.current_tick.player_positions = remove(@, drop.cid)]

handle_drop(p, drop) ==
    [p EXCEPT !.current_tick.input_vectors = remove(@, drop.cid)]

\* the match of parse_chunk
dispatch(p, chunk, cids) ==
    CASE chunk.type = "TickSkip" -> handle_tick_skip(p, chunk.dt, FALSE)
      [] chunk.type = "InputNew" -> handle_input_new(p, chunk)
      [] chunk.type = "InputDiff" -> handle_input_diff(p, chunk)
      [] chunk.type = "NetMessage" -> handle_net_message(p, chunk)
      [] chunk.type = "PlayerDiff" -> handle_player_diff(p, chunk)
      [] chunk.type = "Eos" -> handle_eos(p, cids)
      [] chunk.type = "ConsoleCommand" -> handle_console_command(p, chunk)
      [] chunk.type = "PlayerOld" -> handle_player_old(p, chunk)
      [] chunk.type = "PlayerNew" -> handle_player_new(p, chunk)
      [] chunk.type = "Drop" -> handle_drop(p, chunk)
      [] chunk.type \in UnhandledTypes -> Err(p, "UnhandledChunkError")
      [] OTHER -> p

\* `self.chunk_index += 1; Ok(())`, reached unless the match returned early
count_chunk(p) ==
    IF p.result /= "Ok" THEN p ELSE [p EXCEPT !.chunk_index = @ + 1]

\* mutant of parse_chunk: chunk_index counted before the match
parse_chunk_count_first(p, chunk, cids) ==
    IF p.finished THEN Panic(p)
    ELSE dispatch([p EXCEPT !.result = "Ok", !.chunk_index = @ + 1], chunk, cids)

parse_chunk(p, chunk, cids) ==
    IF p.finished THEN Panic(p)
    ELSE count_chunk(dispatch([p EXCEPT !.result = "Ok"], chunk, cids))

----------------------------------------------------------------------------
(* History of the stream, kept beside the program's state to state claims  *)
(* about whole series of chunks.                                           *)

\* the two 16-bit limbs of the two's-complement pattern of an i32
limbs(x) == << (x \div LIMB) % LIMB, x % LIMB >>

\* the i32 whose bit pattern is the limb sums `t`, reduced modulo 2^32
from_limbs(t) ==
    LET lo == t[2] % LIMB
        hi == (t[1] + t[2] \div LIMB) % LIMB
    IN  (IF hi >= LIMB \div 2 THEN hi - LIMB ELSE hi) * LIMB + lo

total_after(total, chunk, tick) ==
    CASE chunk.type = "InputNew" /\ ~contains_key(tick.input_vectors, chunk.cid) ->
             insert(total, chunk.cid, [i \in 1 .. InputLen |-> limbs(chunk.input[i])])
      [] chunk.type = "InputDiff" /\ contains_key(tick.input_vectors, chunk.cid) ->
             [total EXCEPT ![chunk.cid] =
                 [i \in 1 .. InputLen |->
                     << @[i][1] + limbs(chunk.dinput[i])[1],
                        @[i][2] + limbs(chunk.dinput[i])[2] >>]]
      [] chunk.type = "Drop" -> remove(total, chunk.cid)
      [] OTHER -> total

\* scenario S1 of the specification
S1 ==
    << [type |-> "PlayerNew", cid |-> 0, x |-> 10, y |-> 20],
       [type |-> "InputNew", cid |-> 0, input |-> <<1, 0, 0, 0, 0, 0, 0, 0, 0, 0>>],
       [type |-> "TickSkip", dt |-> 0],
       [type |-> "InputDiff", cid |-> 0, dinput |-> <<0, 5, -3, 0, 0, 0, 0, 0, 0, 0>>],
       [type |-> "PlayerDiff", cid |-> 0, dx |-> 2, dy |-> -1],
       [type |-> "TickSkip", dt |-> 0],
       [type |-> "PlayerOld", cid |-> 0],
       [type |-> "Eos"] >>

\* progress of the stream through S1; a StartInfo net-message of cid 0
\* between its chunks does not count, any other chunk leaves the scenario
s1_after(n, chunk) ==
    IF n >= 0 /\ n < Len(S1) /\ chunk = S1[n + 1] THEN n + 1
    ELSE IF n >= 0 /\ chunk.type = "NetMessage" /\ chunk.cid = 0
               /\ chunk.msg.kind = "ClStartInfo" THEN n
    ELSE -1

\* progress of the stream through the scenario S: the chunk that comes next
\* in S advances it, a StartInfo net-message does not count, and any other
\* chunk leaves the scenario
follows(S, n, chunk) ==
    IF n >= 0 /\ n < Len(S) /\ chunk = S[n + 1] THEN n + 1
    ELSE IF n >= 0 /\ chunk.type = "NetMessage" /\ chunk.msg.kind = "ClStartInfo" THEN n
    ELSE -1

\* scenario S2 of the specification
S2 ==
    << [type |-> "PlayerNew", cid |-> 0, x |-> 10, y |-> 20],
       [type |-> "PlayerNew", cid |-> 1, x |-> 10, y |-> 20],
       [type |-> "PlayerDiff", cid |-> 0, dx |-> 1, dy |-> 0],
       [type |-> "PlayerDiff", cid |-> 0, dx |-> 1, dy |-> 0],
       [type |-> "Eos"] >>

s2_after(n, chunk) == follows(S2, n, chunk)

\* scenario S3 of the specification
S3 ==
    << [type |-> "PlayerNew", cid |-> 0, x |-> 10, y |-> 20],
       [type |-> "InputNew", cid |-> 0, input |-> <<1, 0, 0, 0, 0, 0, 0, 0, 0, 0>>],
       [type |-> "TickSkip", dt |-> 0],
       [type |-> "ConsoleCommand", cid |-> 0, cmd |-> "r"],
       [type |-> "TickSkip", dt |-> 0],
       [type |-> "PlayerOld", cid |-> 0],
       [type |-> "Eos"] >>

s3_after(n, chunk) == follows(S3, n, chunk)

----------------------------------------------------------------------------
(* The files.  A file is one of the preambles below followed by at most    *)
(* MaxChunks chunks of any kind; the empty preamble gives every stream of  *)
(* up to MaxChunks chunks.                                                 *)

StartInfo(c, n) == [type |-> "NetMessage", cid |-> c, msg |-> [kind |-> "ClStartInfo", name |-> n]]
TickSkip0 == [type |-> "TickSkip", dt |-> 0]

\* a named player joins and stays a tick without input
Joined == << StartInfo(0, "Alice"), [type |-> "PlayerNew", cid |-> 0, x |-> 10, y |-> 20], TickSkip0 >>

\* ... then sends its first input and plays a tick
Playing == Joined \o << [type |-> "InputNew", cid |-> 0, input |-> <<1, 0, 0, 0, 0, 0, 0, 0, 0, 0>>], TickSkip0 >>

\* ... then its input is dropped for a tick
Dropped == Playing \o << [type |-> "Drop", cid |-> 0], TickSkip0 >>

\* chunks that find nothing to act on: an InputDiff for a cid without
\* input, and with both cuts off a kill and a rescue of a playing cid; the
\* file ends in the tick in which the cid joined
Stray ==
    << [type |-> "InputNew", cid |-> 1, input |-> <<1, 0, 0, 0, 0, 0, 0, 0, 0, 0>>],
       [type |-> "InputDiff", cid |-> 0, dinput |-> <<0, 5, -3, 0, 0, 0, 0, 0, 0, 0>>],
       [type |-> "PlayerNew", cid |-> 0, x |-> 10, y |-> 20],
       [type |-> "NetMessage", cid |-> 0, msg |-> [kind |-> "ClKill"]],
       [type |-> "ConsoleCommand", cid |-> 0, cmd |-> "r"],
       [type |-> "Eos"] >>

\* a named player joins, plays three ticks and then kills itself; two more
\* ticks pass
Killed ==
    << StartInfo(0, "Alice"),
       [type |-> "PlayerNew", cid |-> 0, x |-> 10, y |-> 20],
       [type |-> "InputNew", cid |-> 0, input |-> <<1, 0, 0, 0, 0, 0, 0, 0, 0, 0>>],
       TickSkip0, TickSkip0, TickSkip0,
       [type |-> "NetMessage", cid |-> 0, msg |-> [kind |-> "ClKill"]],
       TickSkip0, TickSkip0 >>

\* both players of S2 named
Named == << StartInfo(0, "Alice"), StartInfo(1, "Alice") >>

Preambles ==
    { <<>>, Joined, Playing, Dropped, S1, <<StartInfo(0, "Alice")>> \o S1,
      S2, Named \o S2, S3, <<StartInfo(0, "Alice")>> \o S3, Stray, Killed }

----------------------------------------------------------------------------
(* Extractor::get_ddnet_sequences (src/src/extractor.rs): one parser per   *)
(* file, fed chunk by chunk until the decoder or the parser fails.         *)

\* `ddnet_seq.teehist_path = path.file_stem()...` for every completed sequence
with_teehist_path(seqs) ==
    [i \in 1 .. Len(seqs) |-> [seqs[i] EXCEPT !.teehist_path = Some("file")]]

\* the orders in which a HashMap may yield the keys in K
key_orders(K) ==
    { o \in [1 .. Cardinality(K) -> K] : \A i, j \in 1 .. Cardinality(K) : i /= j => o[i] /= o[j] }

\* mutant of after_parse: no `break` on an error
after_parse_no_break(parse_result) ==
    IF parse_result = "panic" THEN "panicked" ELSE "next_chunk"

\* where the loop goes after parse_chunk: on, out by `break` to the return,
\* or nowhere when the call unwound
after_parse(parse_result) ==
    IF parse_result = "Ok" THEN "next_chunk"
    ELSE IF parse_result = "panic" THEN "panicked"
    ELSE "returned"

\* `let mut parser = Parser::new(...)` for any configuration, before the loop
Init ==
    /\ parser \in { Parser_new(kill, rescue) : kill \in BOOLEAN, rescue \in BOOLEAN }
    /\ pc = "next_chunk"
    /\ sequences = <<>>
    /\ decoder \in { [preamble |-> q, free |-> 0] : q \in Preambles }
    /\ input_total = EmptyMap
    /\ s1 = 0
    /\ s2 = 0
    /\ s3 = 0
    /\ cleaner = [pc |-> "idle"]
    /\ exporter = [status |-> "idle"]
    /\ dry_exporter = [status |-> "idle"]
    /\ export_config = [seq_length |-> 0]
    /\ batches = <<>>
    /\ added = <<>>
    /\ alias = [k |-> 0]
    /\ pool = [paths |-> <<>>]

\* one turn of `while let Ok(chunk) = th.next_chunk()`: parse the chunk, and
\* on an error leave the loop and return the completed sequences
Feed(chunk, cids) ==
    /\ pc = "next_chunk"
    /\ IF decoder.preamble /= <<>>
       THEN chunk = Head(decoder.preamble) /\ decoder' = [decoder EXCEPT !.preamble = Tail(@)]
       ELSE decoder.free < MaxChunks /\ decoder' = [decoder EXCEPT !.free = @ + 1]
    /\ parser' = parse_chunk(parser, chunk, cids)
    /\ pc' = after_parse(parser'.result)
    /\ sequences' = IF parser'.result \in ParseErrors
                    THEN with_teehist_path(parser'.completed_sequences)
                    ELSE sequences
    /\ input_total' = IF finished THEN input_total
                      ELSE total_after(input_total, chunk, current_tick)
    /\ s1' = s1_after(s1, chunk)
    /\ s2' = s2_after(s2, chunk)
    /\ s3' = s3_after(s3, chunk)
    /\ UNCHANGED cleaner
    /\ UNCHANGED export_vars
    /\ UNCHANGED pool

TickSkip ==
    \E chunk \in TickSkipChunks :
        /\ tick_index + chunk.dt + 1 <= MaxTick
        /\ Feed(chunk, <<>>)

InputNew ==
    \E chunk \in InputNewChunks : chunk.type = "InputNew" /\ Feed(chunk, <<>>)

InputDiff ==
    \E chunk \in InputDiffChunks : chunk.type = "InputDiff" /\ Feed(chunk, <<>>)

NetMessage ==
    \E chunk \in NetMessageChunks : chunk.type = "NetMessage" /\ Feed(chunk, <<>>)

PlayerNew ==
    \E chunk \in PlayerNewChunks : tick_index < MaxTick /\ Feed(chunk, <<>>)

PlayerDiff ==
    \E chunk \in PlayerDiffChunks : tick_index < MaxTick /\ Feed(chunk, <<>>)

PlayerOld ==
    \E chunk \in PlayerOldChunks : tick_index < MaxTick /\ Feed(chunk, <<>>)

ConsoleCommand ==
    \E chunk \in ConsoleCommandChunks : chunk.type = "ConsoleCommand" /\ Feed(chunk, <<>>)

Drop ==
    \E chunk \in DropChunks : chunk.type = "Drop" /\ Feed(chunk, <<>>)

Eos ==
    \E cids \in key_orders(DOMAIN active_sequences) :
        Len(cids) = Cardinality(DOMAIN active_sequences) /\ Feed([type |-> "Eos"], cids)

OtherChunk ==
    \E chunk \in BareChunks : chunk.type /= "Eos" /\ Feed(chunk, <<>>)

\* th.next_chunk() returns Err (end of file or a decode failure): the loop
\* ends and the completed sequences are returned
DecoderEnd ==
    /\ pc = "next_chunk"
    /\ pc' = "returned"
    /\ sequences' = with_teehist_path(completed_sequences)
    /\ UNCHANGED <<parser, decoder, input_total, s1, s2, s3, cleaner>>
    /\ UNCHANGED export_vars
    /\ UNCHANGED pool

Next ==
    \/ TickSkip
    \/ InputNew
    \/ InputDiff
    \/ NetMessage
    \/ PlayerNew
    \/ PlayerDiff
    \/ PlayerOld
    \/ ConsoleCommand
    \/ Drop
    \/ Eos
    \/ OtherChunk
    \/ DecoderEnd

Spec == Init /\ [][Next]_vars

----------------------------------------------------------------------------
(* Duration (src/src/preprocess.rs) and the cleaning of one sequence in    *)
(* Exporter::handle_batch (src/src/export.rs).  Ticks of a sequence count  *)
(* from 0, so tick t of a column is its element t + 1.                     *)

Duration_new(start, end) == [start |-> start, end |-> end]

\* Duration::tick_count, `end` inclusive
tick_count(d) == d.end - d.start + 1

\* mutant of cut_duration: `Duration::new(start, start + target_length)`
cut_duration_end_exclusive(d, target_length) ==
    [idx \in 1 .. tick_count(d) \div target_length |->
        Duration_new(target_length * (idx - 1),
                     target_length * (idx - 1) + target_length)]

\* `for idx in 0..sequence_count { let start = target_length * idx; ... }`
cut_duration(d, target_length) ==
    [idx \in 1 .. tick_count(d) \div target_length |->
        Duration_new(target_length * (idx - 1),
                     target_length * (idx - 1) + target_length - 1)]

\* the padded start and end of durations[i], before the overlap checks
pad_start(duration, margin) ==
    IF duration.start >= margin THEN duration.start - margin ELSE 0

pad_end(duration, max_tick, margin) ==
    IF duration.end + margin <= max_tick THEN duration.end + margin ELSE max_tick

\* `if end >= next_duration.start { end = next_duration.start - 1 }`
limit_end(end, durations, i) ==
    IF i < Len(durations) /\ end >= durations[i + 1].start
    THEN durations[i + 1].start - 1
    ELSE end

\* mutant of limit_start: `if start < prev_duration.end`
limit_start_behind(start, adjusted) ==
    IF adjusted /= <<>> /\ start < adjusted[Len(adjusted)].end
    THEN adjusted[Len(adjusted)].end + 1
    ELSE start

\* `if start <= prev_duration.end { start = prev_duration.end + 1 }`
limit_start(start, adjusted) ==
    IF adjusted /= <<>> /\ start <= adjusted[Len(adjusted)].end
    THEN adjusted[Len(adjusted)].end + 1
    ELSE start

\* `if start <= end { adjusted_durations.push(Duration::new(start, end)) }`
push_valid(adjusted, start, end) ==
    IF start <= end THEN Append(adjusted, Duration_new(start, end)) ELSE adjusted

\* Duration::pad_durations
pad_durations(durations, max_tick, margin) ==
    LET adjusted_durations[i \in 0 .. Len(durations)] ==
            IF i = 0 THEN <<>>
            ELSE push_valid(adjusted_durations[i - 1],
                            limit_start(pad_start(durations[i], margin), adjusted_durations[i - 1]),
                            limit_end(pad_end(durations[i], max_tick, margin), durations, i))
    IN  adjusted_durations[Len(durations)]

\* the locals of get_non_afk_durations before its loop
afk_start ==
    [afk |-> TRUE, first_move_tick |-> None, last_move_tick |-> None, durations |-> <<>>]

\* `durations.push(Duration::new(first_tick, last_tick))` if both ticks are set
push_run(l) ==
    IF is_some(l.first_move_tick) /\ is_some(l.last_move_tick)
    THEN Append(l.durations, Duration_new(unwrap(l.first_move_tick), unwrap(l.last_move_tick)))
    ELSE l.durations

\* mutant of afk_tick: `current_tick - last_tick >= tick_threshold`
afk_tick_at_threshold(l, t, move_dir, tick_threshold) ==
    IF move_dir /= 0
    THEN [l EXCEPT !.last_move_tick = Some(t),
                   !.first_move_tick = IF l.afk THEN Some(t) ELSE @,
                   !.afk = FALSE]
    ELSE IF ~l.afk /\ is_some(l.last_move_tick) /\ t - unwrap(l.last_move_tick) >= tick_threshold
    THEN [l EXCEPT !.durations = push_run(l),
                   !.afk = TRUE,
                   !.first_move_tick = None,
                   !.last_move_tick = None]
    ELSE l

\* one turn of the loop of get_non_afk_durations, at tick t
afk_tick(l, t, move_dir, tick_threshold) ==
    IF move_dir /= 0
    THEN [l EXCEPT !.last_move_tick = Some(t),
                   !.first_move_tick = IF l.afk THEN Some(t) ELSE @,
                   !.afk = FALSE]
    ELSE IF ~l.afk /\ is_some(l.last_move_tick) /\ t - unwrap(l.last_move_tick) > tick_threshold
    THEN [l EXCEPT !.durations = push_run(l),
                   !.afk = TRUE,
                   !.first_move_tick = None,
                   !.last_move_tick = None]
    ELSE l

\* the loop of get_non_afk_durations over the ticks from .. to - 1, entered
\* with the locals l.  The ticks are taken in order; a stretch of more than
\* one tick is walked as its first half followed by its second half, each
\* entered with its locals evaluated, so that the evaluation of a long column
\* does not nest tick by tick.
RECURSIVE afk_ticks_walk(_, _, _, _, _)
afk_ticks_walk(l, sequence, from, to, tick_threshold) ==
    IF l.afk \notin BOOLEAN \/ to <= from THEN l
    ELSE IF to = from + 1
    THEN afk_tick(l, from, sequence.move_dir[from + 1], tick_threshold)
    ELSE afk_ticks_walk(afk_ticks_walk(l, sequence, from, (from + to) \div 2, tick_threshold),
                        sequence, (from + to) \div 2, to, tick_threshold)

\* get_non_afk_durations after its loop: the run still open is pushed
afk_finish(l) == IF l.afk THEN l.durations ELSE push_run(l)

\* Duration::get_non_afk_durations
get_non_afk_durations(sequence, tick_threshold) ==
    afk_finish(afk_ticks_walk(afk_start, sequence, 0, Len(sequence.move_dir), tick_threshold))

\* `.flat_map(|duration| duration.cut_duration(seq_length)).collect()`
cut_all(durations, seq_length) ==
    LET cut[i \in 0 .. Len(durations)] ==
            IF i = 0 THEN <<>> ELSE cut[i - 1] \o cut_duration(durations[i], seq_length)
    IN  cut[Len(durations)]

\* the sub-sequence of one duration; every tick column is sliced like
\* move_dir, and the names are copied
sub_sequence(sequence, duration) ==
    [sequence EXCEPT !.start_tick = sequence.start_tick + duration.start,
                     !.tick_count = duration.end - duration.start + 1,
                     !.move_dir = SubSeq(sequence.move_dir, duration.start + 1, duration.end + 1),
                     !.jump = SubSeq(sequence.jump, duration.start + 1, duration.end + 1),
                     !.fire = SubSeq(sequence.fire, duration.start + 1, duration.end + 1),
                     !.hook = SubSeq(sequence.hook, duration.start + 1, duration.end + 1)]

\* `assert!(duration.start < sequence.tick_count && duration.end < sequence.tick_count)`
inside(sequence, durations) ==
    \A i \in 1 .. Len(durations) :
        durations[i].start < sequence.tick_count /\ durations[i].end < sequence.tick_count

\* Duration::extract_sub_sequences, where its assertion holds
extract_sub_sequences(sequence, durations) ==
    [i \in 1 .. Len(durations) |-> sub_sequence(sequence, durations[i])]

\* scenario S4 of the specification: the move_dir column and the configuration
S4_move_dir ==
    [t \in 1 .. 1000 |->
        IF t <= 10 THEN 1 ELSE IF t <= 210 THEN 0 ELSE IF t <= 220 THEN 1
        ELSE IF t <= 820 THEN 0 ELSE 1]

S4_config == [afk_ticks |-> 150, afk_padding |-> 5, seq_length |-> 100]

\* a Sequence of the given move_dir column, no button held
Sequence_of(start_tick, column) ==
    [ start_tick |-> start_tick,
      tick_count |-> Len(column),
      move_dir |-> column,
      jump |-> [i \in 1 .. Len(column) |-> FALSE],
      fire |-> [i \in 1 .. Len(column) |-> FALSE],
      hook |-> [i \in 1 .. Len(column) |-> FALSE],
      player_name |-> "Alice" ]

Columns == UNION { [1 .. n -> {0, 1}] : n \in 1 .. MaxSeqLen }

ExportConfigs ==
    { [afk_ticks |-> a, afk_padding |-> m, seq_length |-> l] :
        a \in 1 .. MaxAfkTicks, m \in 0 .. MaxPadding, l \in 1 .. MaxSeqLength }

\* a sequence converted in handle_batch, and the export configuration
InitClean ==
    /\ parser = Parser_new(FALSE, FALSE)
    /\ pc = "returned"
    /\ sequences = <<>>
    /\ decoder = [preamble |-> <<>>, free |-> 0]
    /\ input_total = EmptyMap
    /\ s1 = 0
    /\ s2 = 0
    /\ s3 = 0
    /\ exporter = [status |-> "idle"]
    /\ dry_exporter = [status |-> "idle"]
    /\ export_config = [seq_length |-> 0]
    /\ batches = <<>>
    /\ added = <<>>
    /\ alias = [k |-> 0]
    /\ pool = [paths |-> <<>>]
    /\ cleaner \in
           { [pc |-> "sequence", sequence |-> Sequence_of(b, c), config |-> g,
              min_count_fail |-> 0] :
                 b \in {0, 7}, c \in Columns, g \in ExportConfigs }
               \cup { [pc |-> "sequence", sequence |-> Sequence_of(0, S4_move_dir),
                       config |-> S4_config, min_count_fail |-> 0] }

\* handle_batch, lines 394-399: a sequence shorter than seq_length is counted
\* in min_count_fail and skipped
Skip ==
    /\ cleaner.pc = "sequence"
    /\ cleaner.sequence.tick_count < cleaner.config.seq_length
    /\ cleaner' = [cleaner EXCEPT !.pc = "skipped", !.min_count_fail = @ + 1]
    /\ UNCHANGED file_vars
    /\ UNCHANGED export_vars
    /\ UNCHANGED pool

\* the durations of the cleaning closure, stage by stage
stages(sequence, config) ==
    [ non_afk |-> get_non_afk_durations(sequence, config.afk_ticks),
      padded |-> pad_durations(get_non_afk_durations(sequence, config.afk_ticks),
                               sequence.tick_count - 1, config.afk_padding),
      cut |-> cut_all(pad_durations(get_non_afk_durations(sequence, config.afk_ticks),
                                    sequence.tick_count - 1, config.afk_padding),
                      config.seq_length) ]

\* handle_batch, lines 425-440: the cleaning closure on one sequence
Clean ==
    /\ cleaner.pc = "sequence"
    /\ cleaner.sequence.tick_count >= cleaner.config.seq_length
    /\ \E d \in { stages(cleaner.sequence, cleaner.config) } :
           cleaner' =
               IF inside(cleaner.sequence, d.cut)
               THEN [ pc |-> "cleaned", sequence |-> cleaner.sequence, config |-> cleaner.config,
                      min_count_fail |-> cleaner.min_count_fail,
                      durations |-> d,
                      sub_sequences |-> extract_sub_sequences(cleaner.sequence, d.cut) ]
               ELSE [ pc |-> "panicked", sequence |-> cleaner.sequence, config |-> cleaner.config,
                      min_count_fail |-> cleaner.min_count_fail,
                      durations |-> d, sub_sequences |-> <<>> ]
    /\ UNCHANGED file_vars
    /\ UNCHANGED export_vars
    /\ UNCHANGED pool

NextClean == Skip \/ Clean

SpecClean == InitClean /\ [][NextClean]_vars

----------------------------------------------------------------------------
(* Sequence::from_ddnet_sequence (src/src/extractor.rs) and the Exporter   *)
(* (src/src/export.rs).  A file is the list of DDNetSequences that         *)
(* get_ddnet_sequences returns for it.                                     *)

\* a DDNetSequence as the parser completes it, with the timeout code the
\* exporter's revision of the parser records for the cid (None if it saw none)
Extracted(name, code, file, start, column) ==
    [ cid |-> 0,
      start_tick |-> start,
      end_tick |-> Some(start + Len(column)),
      player_name |-> Some(name),
      teehist_path |-> Some(file),
      timeout_code |-> code,
      input_vectors |-> [i \in 1 .. Len(column) |->
                            [j \in 1 .. InputLen |-> IF j = 1 THEN column[i] ELSE 0]],
      player_positions |-> [i \in 1 .. Len(column) |-> <<0, 0>>] ]

\* the DDNetSequence with the slots 3 (jump), 4 (fire) and 5 (hook) of its
\* input vectors set, tick by tick
with_buttons(ddnet_seq, jump, fire, hook) ==
    [ddnet_seq EXCEPT !.input_vectors =
        [i \in 1 .. Len(@) |-> [@[i] EXCEPT ![4] = jump[i], ![5] = fire[i], ![6] = hook[i]]]]

\* the variant of ConversionResult: no timeout code was seen for the cid
conversion(ddnet_seq) ==
    IF is_some(ddnet_seq.timeout_code) THEN "Ok" ELSE "MissingTimeout"

\* `a % b` of i32 for b > 0: the remainder has the sign of the dividend
rem(a, b) == IF a < 0 /\ a % b /= 0 THEN (a % b) - b ELSE a % b

\* `jump.push(input_vector[3] == 1)`, `hook.push(input_vector[5] == 1)`
pressed(slot) == slot = 1

\* `fire.push((input_vector[4] % 2) == 1)`
fire_of(slot) == rem(slot, 2) = 1

\* Sequence::from_ddnet_sequence: the sequence data, the move_dir column and
\* the columns of the buttons
from_ddnet_sequence(ddnet_sequence) ==
    [ start_tick |-> ddnet_sequence.start_tick,
      tick_count |-> unwrap(ddnet_sequence.end_tick) - ddnet_sequence.start_tick,
      player_name |-> unwrap(ddnet_sequence.player_name),
      teehist_name |-> unwrap(ddnet_sequence.teehist_path),
      timeout_code |-> unwrap(ddnet_sequence.timeout_code),
      move_dir |-> [i \in 1 .. Len(ddnet_sequence.input_vectors) |->
                       ddnet_sequence.input_vectors[i][1]],
      jump |-> [i \in 1 .. Len(ddnet_sequence.input_vectors) |->
                   pressed(ddnet_sequence.input_vectors[i][4])],
      fire |-> [i \in 1 .. Len(ddnet_sequence.input_vectors) |->
                   fire_of(ddnet_sequence.input_vectors[i][5])],
      hook |-> [i \in 1 .. Len(ddnet_sequence.input_vectors) |->
                   pressed(ddnet_sequence.input_vectors[i][6])] ]

\* Exporter::new: with use_vel the sequences of the dataset are one tick
\* shorter; the dataset and the meta file exist unless dry_run
Exporter_new(config) ==
    [ players |-> EmptyMap,
      player_count |-> 0,
      sequence_count |-> 0,
      seq_dataset |-> IF config.dry_run THEN None ELSE Some(0),
      meta_file |-> IF config.dry_run THEN None ELSE Some(<<>>),
      config |-> [config EXCEPT !.seq_length = IF config.use_vel THEN @ - 1 ELSE @],
      status |-> "Ok" ]

\* `*player.timeout_codes.entry(code).or_insert(0) += 1`
count_code(timeout_codes, code) ==
    IF contains_key(timeout_codes, code)
    THEN [timeout_codes EXCEPT ![code] = @ + 1]
    ELSE insert(timeout_codes, code, 1)

\* add_to_dataset, lines 297-309: a name seen for the first time gets the
\* current player count as its id
register(e, seq) ==
    IF contains_key(e.players, seq.player_name) THEN e
    ELSE [e EXCEPT !.players = insert(@, seq.player_name,
                                      [player_id |-> e.player_count,
                                       seq_count |-> 0,
                                       timeout_codes |-> EmptyMap]),
                   !.player_count = @ + 1]

\* add_to_dataset, lines 310-317, on the registered player
count_sequence(e, seq) ==
    [e EXCEPT !.players[seq.player_name].seq_count = @ + 1,
              !.players[seq.player_name].timeout_codes = count_code(@, seq.timeout_code)]

\* the row of meta.csv, lines 319-328
meta_csv(e, seq) ==
    [ seq_id |-> e.sequence_count,
      player_id |-> e.players[seq.player_name].player_id,
      player |-> seq.player_name,
      start |-> seq.start_tick,
      ticks |-> seq.tick_count,
      teehist |-> seq.teehist_name ]

\* sequence_to_tick_array and its assignment to the batch's array succeed:
\* seq_length is not 0 (`data.len() % self.config.seq_length`), every column
\* holds seq_length ticks and, with use_vel, one more position
tick_array_ok(e, seq) ==
    /\ e.config.seq_length > 0
    /\ seq.tick_count >= e.config.seq_length + (IF e.config.use_vel THEN 1 ELSE 0)

\* add_to_dataset, lines 332-343: unless dry_run, the row is written and the
\* tick array built
write_sequence(e, seq, row) ==
    IF e.config.dry_run THEN e
    ELSE IF ~tick_array_ok(e, seq)
    THEN [e EXCEPT !.meta_file = Some(Append(unwrap(@), row)), !.status = "panic"]
    ELSE [e EXCEPT !.meta_file = Some(Append(unwrap(@), row))]

\* add_to_dataset, line 330 and on, after the accounting of the sequence
number_sequence(e, seq) ==
    write_sequence([e EXCEPT !.sequence_count = @ + 1], seq, meta_csv(e, seq))

\* mutant of add_sequence: with dry_run the sequence is skipped before the
\* accounting
add_sequence_skip_dry(e, seq) ==
    IF e.status /= "Ok" \/ e.config.dry_run THEN e
    ELSE number_sequence(count_sequence(register(e, seq), seq), seq)

\* mutant of add_sequence: the id of a new player is the sequence count
add_sequence_seq_id(e, seq) ==
    IF e.status /= "Ok" THEN e
    ELSE number_sequence(
             count_sequence(
                 IF contains_key(e.players, seq.player_name) THEN e
                 ELSE [e EXCEPT !.players = insert(@, seq.player_name,
                                                   [player_id |-> e.sequence_count,
                                                    seq_count |-> 0,
                                                    timeout_codes |-> EmptyMap]),
                                !.player_count = @ + 1],
                 seq),
             seq)

\* one turn of the loop of add_to_dataset
add_sequence(e, seq) ==
    IF e.status /= "Ok" THEN e
    ELSE number_sequence(count_sequence(register(e, seq), seq), seq)

\* add_to_dataset, lines 346-359: the batch's tick arrays are appended
append_ticks(e, n) ==
    IF e.status /= "Ok" \/ e.config.dry_run THEN e
    ELSE [e EXCEPT !.seq_dataset = Some(unwrap(@) + n)]

\* Exporter::add_to_dataset
add_to_dataset(e, seqs) ==
    LET loop[k \in 0 .. Len(seqs)] ==
            IF k = 0 THEN e ELSE add_sequence(loop[k - 1], seqs[k])
    IN  append_ticks(loop[Len(seqs)], Len(seqs))

\* `batch_paths.par_iter().flat_map(get_ddnet_sequences).collect()`: the
\* sequences of the files, in the order of the paths
flatten(batch) ==
    LET collected[k \in 0 .. Len(batch)] ==
            IF k = 0 THEN <<>> ELSE collected[k - 1] \o batch[k]
    IN  collected[Len(batch)]

\* mutant of popped: the sequences are taken from the front
popped_front(sequence_batch) == sequence_batch

\* `while let Some(ddnet_seq) = sequence_batch.pop()`: last one first
popped(sequence_batch) ==
    [i \in 1 .. Len(sequence_batch) |-> sequence_batch[Len(sequence_batch) - i + 1]]

\* handle_batch, lines 393-414: the sequences that are long enough and
\* convert, converted
converted(ddnet_seqs, config) ==
    LET kept[k \in 0 .. Len(ddnet_seqs)] ==
            IF k = 0 THEN <<>>
            ELSE IF unwrap(ddnet_seqs[k].end_tick) - ddnet_seqs[k].start_tick < config.seq_length
            THEN kept[k - 1]
            ELSE IF conversion(ddnet_seqs[k]) /= "Ok" THEN kept[k - 1]
            ELSE Append(kept[k - 1], from_ddnet_sequence(ddnet_seqs[k]))
    IN  kept[Len(ddnet_seqs)]

\* handle_batch, lines 425-440: the sub-sequences of all sequences
cleaned_sequences(seqs, config) ==
    LET cleaned[k \in 0 .. Len(seqs)] ==
            IF k = 0 THEN <<>>
            ELSE cleaned[k - 1]
                     \o extract_sub_sequences(seqs[k], stages(seqs[k], config).cut)
    IN  cleaned[Len(seqs)]

\* the assertion of extract_sub_sequences holds for every sequence
all_inside(seqs, config) ==
    \A k \in 1 .. Len(seqs) : inside(seqs[k], stages(seqs[k], config).cut)

\* the argument of add_to_dataset in handle_batch
batch_sequences(batch, config) ==
    cleaned_sequences(converted(popped(flatten(batch)), config), config)

\* Exporter::handle_batch
handle_batch(e, batch, config) ==
    IF ~all_inside(converted(popped(flatten(batch)), config), config)
    THEN [e EXCEPT !.status = "panic"]
    ELSE add_to_dataset(e, batch_sequences(batch, config))

\* `*a.get(key).unwrap_or(&0)`
get_or_zero(h, key) == IF contains_key(h, key) THEN h[key] ELSE 0

min_of(x, y) == IF x <= y THEN x ELSE y
max_val(x, y) == IF x >= y THEN x ELSE y

\* one turn of `for key in a.keys().chain(b.keys())`
jaccard_key(acc, key, a, b) ==
    [ num |-> acc.num + min_of(get_or_zero(a, key), get_or_zero(b, key)),
      den |-> acc.den + max_val(get_or_zero(a, key), get_or_zero(b, key)),
      shared |-> IF get_or_zero(a, key) > 0 /\ get_or_zero(b, key) > 0
                 THEN acc.shared + 1 ELSE acc.shared ]

\* `a.keys().chain(b.keys())`, the keys of each histogram in an order its
\* HashMap may yield them
chained_keys(a, b) ==
    (CHOOSE o \in key_orders(DOMAIN a) : TRUE) \o (CHOOSE o \in key_orders(DOMAIN b) : TRUE)

\* the quotient `num as f64 / den as f64` as the fraction <<num, den>>;
\* 0.0 when den is 0
sim_of(acc) == IF acc.den = 0 THEN <<0, 1>> ELSE <<acc.num, acc.den>>

\* weighted_jaccard: (sim, shared)
weighted_jaccard(a, b) ==
    LET loop[k \in 0 .. Len(chained_keys(a, b))] ==
            IF k = 0 THEN [num |-> 0, den |-> 0, shared |-> 0]
            ELSE jaccard_key(loop[k - 1], chained_keys(a, b)[k], a, b)
    IN  [ sim |-> sim_of(loop[Len(chained_keys(a, b))]),
          shared |-> loop[Len(chained_keys(a, b))].shared ]

\* one turn of the loops over i and j of print_alias_candidates: the pair
\* and what weighted_jaccard returns for it
scored(players, name_i, name_j) ==
    [ name_i |-> name_i,
      id_i |-> players[name_i].player_id,
      name_j |-> name_j,
      id_j |-> players[name_j].player_id,
      wj |-> weighted_jaccard(players[name_i].timeout_codes,
                              players[name_j].timeout_codes).sim,
      shared |-> weighted_jaccard(players[name_i].timeout_codes,
                                  players[name_j].timeout_codes).shared ]

\* `shared >= min_shared && wj >= min_wj`, min_wj in tenths
is_candidate(pair, min_shared, min_wj_tenths) ==
    /\ pair.shared >= min_shared
    /\ pair.wj[1] * 10 >= min_wj_tenths * pair.wj[2]

\* `ranked.sort_by(|a, b| b.1.seq_count.cmp(&a.1.seq_count))` on the players
\* in the order of their HashMap: by seq_count, most first
rankings(players) ==
    { o \in key_orders(DOMAIN players) :
          \A i \in 1 .. Len(o) - 1 :
              players[o[i]].seq_count >= players[o[i + 1]].seq_count }

\* the loops of print_alias_candidates over the pairs i < j of the top k
scored_pairs(players, topk) ==
    { scored(players, topk[p[1]], topk[p[2]]) :
          p \in { q \in (1 .. Len(topk)) \X (1 .. Len(topk)) : q[1] < q[2] } }

\* print_alias_candidates on the ranked players: all pairs of the first k
\* scored, and those kept as candidates
alias_candidates(players, ranked, k, min_shared, min_wj_tenths) ==
    [ k |-> k,
      scored |-> scored_pairs(players, SubSeq(ranked, 1, min_of(k, Len(ranked)))),
      pairs |-> { c \in scored_pairs(players, SubSeq(ranked, 1, min_of(k, Len(ranked)))) :
                      is_candidate(c, min_shared, min_wj_tenths) } ]

\* the files of a run, each as the sequences get_ddnet_sequences returns
File_a == << Extracted("Alice", Some("t1"), "a", 0, <<1, 1>>) >>
File_b == << Extracted("Alice", Some("t1"), "b", 0, <<1, 1>>) >>

\* with them a file of two players who hold buttons (the fire counter of the
\* input has wrapped around to negative values), a file whose sequences have
\* no timeout code, are short or idle, and a file without sequences
Files ==
    { File_a,
      File_b,
      << with_buttons(Extracted("Bob", Some("t2"), "c", 3, <<1, 1, 1, 1>>),
                      <<1, 0, 2, -1>>, <<-3, -2, 3, I32_MIN + 1>>, <<0, 1, I32_MAX, 1>>),
         with_buttons(Extracted("Alice", Some("t2"), "c", 9, <<1, 0, 1>>),
                      <<1, 1, 0>>, <<I32_MAX, I32_MIN, -1>>, <<3, 0, 1>>) >>,
      << Extracted("Bob", None, "d", 0, <<1, 1>>),
         Extracted("Carol", Some("t1"), "d", 5, <<1>>),
         Extracted("Bob", Some("t1"), "d", 8, <<0, 0>>) >>,
      << >> }

\* the batches of paths given to handle_batch
Batches == UNION { [1 .. n -> Files] : n \in 1 .. 2 }

\* the configurations of a run
RunConfigs ==
    { [ seq_length |-> l, afk_ticks |-> 2, afk_padding |-> 1,
        use_vel |-> v, dry_run |-> FALSE ] : l \in 1 .. 2, v \in BOOLEAN }

InitExport ==
    /\ parser = Parser_new(FALSE, FALSE)
    /\ pc = "returned"
    /\ sequences = <<>>
    /\ decoder = [preamble |-> <<>>, free |-> 0]
    /\ input_total = EmptyMap
    /\ s1 = 0
    /\ s2 = 0
    /\ s3 = 0
    /\ cleaner = [pc |-> "idle"]
    /\ export_config \in RunConfigs
    /\ exporter = Exporter_new([export_config EXCEPT !.dry_run = FALSE])
    /\ dry_exporter = Exporter_new([export_config EXCEPT !.dry_run = TRUE])
    /\ batches = <<>>
    /\ added = <<>>
    /\ alias = [k |-> 0]
    /\ pool = [paths |-> <<>>]

\* one call of handle_batch in the run that writes and in the dry run; a run
\* that panicked has ended
HandleBatch ==
    \E batch \in Batches :
        /\ exporter.status = "Ok"
        /\ dry_exporter.status = "Ok"
        /\ Len(flatten(batches)) + Len(batch) <= MaxFiles
        /\ exporter' = handle_batch(exporter, batch, export_config)
        /\ dry_exporter' = handle_batch(dry_exporter, batch, export_config)
        /\ batches' = Append(batches, batch)
        /\ added' = added \o batch_sequences(batch, export_config)
        /\ UNCHANGED <<export_config, alias, pool>>
        /\ UNCHANGED file_vars
        /\ UNCHANGED cleaner

\* print_summary(k) at its call of print_alias_candidates(k, 1, 0.1, 20)
PrintAliasCandidates ==
    \E k \in 2 .. 3 :
        \E ranked \in rankings(exporter.players) :
            /\ exporter.status = "Ok"
            /\ batches /= <<>>
            /\ alias' = alias_candidates(exporter.players, ranked, k, 1, 1)
            /\ UNCHANGED <<exporter, dry_exporter, export_config, batches, added, pool>>
            /\ UNCHANGED file_vars
            /\ UNCHANGED cleaner

NextExport == HandleBatch \/ PrintAliasCandidates

SpecExport == InitExport /\ [][NextExport]_vars

----------------------------------------------------------------------------
(* The parallel parsing of handle_batch (src/src/export.rs, lines 374-377): *)
(* `batch_paths.par_iter().flat_map(get_ddnet_sequences).collect()`.  A     *)
(* worker of the pool takes a path, opens the file and parses it with a     *)
(* Parser of its own; collect() puts the vectors of the paths together.     *)

\* number of threads of the pool
MaxWorkers == 2

\* a player joins, plays three ticks and leaves; the file ends with Eos
Round ==
    << StartInfo(0, "Alice"),
       [type |-> "PlayerNew", cid |-> 0, x |-> 10, y |-> 20],
       [type |-> "InputNew", cid |-> 0, input |-> <<1, 0, 0, 0, 0, 0, 0, 0, 0, 0>>],
       TickSkip0, TickSkip0, TickSkip0,
       [type |-> "PlayerOld", cid |-> 0],
       [type |-> "Eos"] >>

\* the same with a chunk the parser does not handle in place of Eos
Broken == SubSeq(Round, 1, Len(Round) - 1) \o << [type |-> "PlayerSwap"] >>

\* two players join and play three ticks; Eos closes both sequences
Pair ==
    << StartInfo(0, "Alice"), StartInfo(1, "Bob"),
       [type |-> "PlayerNew", cid |-> 0, x |-> 10, y |-> 20],
       [type |-> "PlayerNew", cid |-> 1, x |-> 30, y |-> 40],
       [type |-> "InputNew", cid |-> 0, input |-> <<1, 0, 0, 0, 0, 0, 0, 0, 0, 0>>],
       [type |-> "InputNew", cid |-> 1, input |-> <<-1, 0, 0, 0, 0, 0, 0, 0, 0, 0>>],
       TickSkip0, TickSkip0, TickSkip0,
       [type |-> "Eos"] >>

\* the files of a batch: the file stem of the path and the chunks in the file
Paths ==
    { [stem |-> "a", chunks |-> Round],
      [stem |-> "b", chunks |-> Broken],
      [stem |-> "c", chunks |-> Pair] }

\* `batch_paths`: two or more paths, each file once
PathBatches ==
    { b \in UNION { [1 .. n -> Paths] : n \in 2 .. Cardinality(Paths) } :
          \A i, j \in 1 .. Len(b) : i /= j => b[i] /= b[j] }

\* `ddnet_seq.teehist_path = path.file_stem()...` for every completed sequence
with_stem(seqs, path) ==
    [i \in 1 .. Len(seqs) |-> [seqs[i] EXCEPT !.teehist_path = Some(path.stem)]]

\* the loop of get_ddnet_sequences over the chunks, from each of the parsers
\* in P: the parsers it may end with.  After an error or a panic no further
\* chunk is parsed; Eos closes the active sequences in any order of the cids.
RECURSIVE parsed(_, _)
parsed(P, chunks) ==
    IF chunks = <<>> THEN P
    ELSE parsed(UNION { IF p.result /= "Ok" THEN {p}
                        ELSE { parse_chunk(p, Head(chunks), cids) :
                                   cids \in key_orders(DOMAIN p.active_sequences) } :
                        p \in P },
                Tail(chunks))

\* Extractor::get_ddnet_sequences: the ways the call may end for the path,
\* with the vector it returns unless it unwinds
get_ddnet_sequences(path, config) ==
    { [ panicked |-> p.result = "panic",
        sequences |-> IF p.result = "panic" THEN <<>>
                      ELSE with_stem(p.completed_sequences, path) ] :
          p \in parsed({ Parser_new(config.cut_kill, config.cut_rescue) }, path.chunks) }

\* the vectors that parsing the paths one after the other in their order
\* may give
sequential(paths, config) ==
    LET collected[k \in 0 .. Len(paths)] ==
            IF k = 0 THEN { <<>> }
            ELSE { v \o r.sequences :
                       v \in collected[k - 1],
                       r \in { e \in get_ddnet_sequences(paths[k], config) : ~e.panicked } }
    IN  collected[Len(paths)]

\* mutant of start_job: the worker goes on with the parser of the path before
start_job_reuse(p, i) ==
    [ at |-> "next_chunk",
      parser |-> IF i > 1 /\ p.jobs[i - 1].at /= "queued"
                 THEN [p.jobs[i - 1].parser EXCEPT !.result = "Ok", !.finished = FALSE]
                 ELSE Parser_new(p.config.cut_kill, p.config.cut_rescue),
      rest |-> p.paths[i].chunks,
      sequences |-> <<>> ]

\* get_ddnet_sequences up to its loop: the file is opened and
\* `let mut parser = Parser::new(config.clone())`
start_job(p, i) ==
    [ at |-> "next_chunk",
      parser |-> Parser_new(p.config.cut_kill, p.config.cut_rescue),
      rest |-> p.paths[i].chunks,
      sequences |-> <<>> ]

\* one turn of the loop of get_ddnet_sequences in the job
parse_next(job, path, cids) ==
    [ at |-> after_parse(parse_chunk(job.parser, Head(job.rest), cids).result),
      parser |-> parse_chunk(job.parser, Head(job.rest), cids),
      rest |-> Tail(job.rest),
      sequences |-> IF parse_chunk(job.parser, Head(job.rest), cids).result \in ParseErrors
                    THEN with_stem(parse_chunk(job.parser, Head(job.rest), cids).completed_sequences,
                                   path)
                    ELSE job.sequences ]

\* the jobs a worker is busy with
busy(p) == { i \in 1 .. Len(p.jobs) : p.jobs[i].at = "next_chunk" }

\* a call of handle_batch reaches its parallel iterator
InitPool ==
    /\ parser = Parser_new(FALSE, FALSE)
    /\ pc = "returned"
    /\ sequences = <<>>
    /\ decoder = [preamble |-> <<>>, free |-> 0]
    /\ input_total = EmptyMap
    /\ s1 = 0
    /\ s2 = 0
    /\ s3 = 0
    /\ cleaner = [pc |-> "idle"]
    /\ exporter = [status |-> "idle"]
    /\ dry_exporter = [status |-> "idle"]
    /\ export_config = [seq_length |-> 0]
    /\ batches = <<>>
    /\ added = <<>>
    /\ alias = [k |-> 0]
    /\ pool \in
           { [ paths |-> b,
               config |-> [cut_kill |-> k, cut_rescue |-> k],
               jobs |-> [i \in 1 .. Len(b) |-> [at |-> "queued"]],
               sequence_batch |-> None ] :
                 b \in PathBatches, k \in BOOLEAN }

\* an idle worker takes a path nobody has taken
StartJob ==
    \E i \in 1 .. Len(pool.paths) :
        /\ pool.jobs[i].at = "queued"
        /\ Cardinality(busy(pool)) < MaxWorkers
        /\ pool' = [pool EXCEPT !.jobs[i] = start_job(pool, i)]
        /\ UNCHANGED <<file_vars, cleaner, export_vars>>

\* a worker parses the next chunk of its file
ParseNext ==
    \E i \in busy(pool) :
        \E cids \in key_orders(DOMAIN pool.jobs[i].parser.active_sequences) :
            /\ pool.jobs[i].rest /= <<>>
            /\ pool' = [pool EXCEPT !.jobs[i] = parse_next(@, pool.paths[i], cids)]
            /\ UNCHANGED <<file_vars, cleaner, export_vars>>

\* th.next_chunk() of a worker returns Err at the end of its file
EndOfFile ==
    \E i \in busy(pool) :
        /\ pool.jobs[i].rest = <<>>
        /\ pool' = [pool EXCEPT !.jobs[i].at = "returned",
                                !.jobs[i].sequences =
                                    with_stem(pool.jobs[i].parser.completed_sequences,
                                              pool.paths[i])]
        /\ UNCHANGED <<file_vars, cleaner, export_vars>>

\* collect(): every call has returned; the vectors are put together in the
\* order of the paths
Collect ==
    /\ pool.sequence_batch = None
    /\ \A i \in 1 .. Len(pool.jobs) : pool.jobs[i].at = "returned"
    /\ pool' = [pool EXCEPT !.sequence_batch =
                   Some(flatten([i \in 1 .. Len(pool.jobs) |-> pool.jobs[i].sequences]))]
    /\ UNCHANGED <<file_vars, cleaner, export_vars>>

NextPool == StartJob \/ ParseNext \/ EndOfFile \/ Collect

SpecPool == InitPool /\ [][NextPool]_vars

abs(n) == IF n < 0 THEN -n ELSE n

Completed == { completed_sequences[i] : i \in 1 .. Len(completed_sequences) }

span_of(s) == unwrap(s.end_tick) - s.start_tick

----------------------------------------------------------------------------
(* C1 *)

\* C1: every completed sequence has as many input vectors as positions, and
\* that many is end_tick - start_tick.
C1_LengthInvariant ==
    \A s \in Completed :
        /\ is_some(s.end_tick)
        /\ Len(s.input_vectors) = span_of(s)
        /\ Len(s.player_positions) = span_of(s)

\* a completed sequence of a cid whose input was missing at a tick of the
\* span in which it had a position
C1_Witness ==
    \E s \in Completed : \E t \in 1 .. unwrap(s.end_tick) :
        /\ contains_key(previous_ticks[t].player_positions, s.cid)
        /\ ~contains_key(previous_ticks[t].input_vectors, s.cid)

----------------------------------------------------------------------------
(* C2 *)

\* C2: at every offset i of a completed sequence, its input vector and
\* position are the ones the history holds for the cid at start_tick + i.
C2_GapFree ==
    \A s \in Completed : \A i \in 0 .. span_of(s) - 1 :
        LET tick == previous_ticks[s.start_tick + i + 1]
        IN  /\ contains_key(tick.input_vectors, s.cid)
            /\ contains_key(tick.player_positions, s.cid)
            /\ s.input_vectors[i + 1] = tick.input_vectors[s.cid]
            /\ s.player_positions[i + 1] = tick.player_positions[s.cid]

----------------------------------------------------------------------------
(* C3 *)

\* C3: consecutive positions of a completed sequence differ by at most
\* max_step in x and in y, in either direction.
C3_MaxStep ==
    \A s \in Completed : \A i \in 1 .. Len(s.player_positions) - 1 :
        /\ abs(s.player_positions[i + 1][1] - s.player_positions[i][1]) <= MAX_STEP
        /\ abs(s.player_positions[i + 1][2] - s.player_positions[i][2]) <= MAX_STEP

----------------------------------------------------------------------------
(* C4 *)

\* C4: a PlayerNew, PlayerDiff or PlayerOld with cid <= last_cid pushes one
\* snapshot of the tick as it was before the chunk and advances tick_index
\* by 1; with last_cid cleared or smaller nothing is pushed; either way
\* last_cid is the chunk's cid afterwards.
C4_ImplicitTick ==
    [][\A c \in PlayerNewChunks \cup PlayerDiffChunks \cup PlayerOldChunks :
          (~finished /\ Feed(c, <<>>)) =>
              LET implicit == is_some(last_cid) /\ c.cid <= unwrap(last_cid)
              IN  /\ tick_index' = IF implicit THEN tick_index + 1 ELSE tick_index
                  /\ previous_ticks' = IF implicit THEN Append(previous_ticks, current_tick)
                                       ELSE previous_ticks
                  /\ last_cid' = Some(c.cid)]_vars

\* two PlayerDiff of cid 1 in a row: the snapshot pushed by the second one
\* holds the first diff only
C4_Witness ==
    /\ last_cid = Some(1)
    /\ tick_index >= 1
    /\ contains_key(current_tick.player_positions, 1)
    /\ current_tick.player_positions[1] = <<14, 18>>
    /\ previous_ticks[tick_index].player_positions[1] = <<12, 19>>

----------------------------------------------------------------------------
(* C5 *)

\* C5: a TickSkip{dt} advances tick_index by dt + 1, appends dt + 1 copies of
\* the current tick to the history and clears last_cid; with last_cid cleared
\* a player chunk advances no tick.
C5_TickSkip ==
    [][/\ \A c \in TickSkipChunks :
             (~finished /\ Feed(c, <<>>)) =>
                 /\ tick_index' = tick_index + c.dt + 1
                 /\ Len(previous_ticks') = Len(previous_ticks) + c.dt + 1
                 /\ SubSeq(previous_ticks', 1, Len(previous_ticks)) = previous_ticks
                 /\ \A i \in Len(previous_ticks) + 1 .. Len(previous_ticks') :
                        previous_ticks'[i] = current_tick
                 /\ current_tick' = current_tick
                 /\ last_cid' = None
       /\ \A c \in PlayerNewChunks \cup PlayerDiffChunks \cup PlayerOldChunks :
             (~finished /\ last_cid = None /\ Feed(c, <<>>)) =>
                 tick_index' = tick_index /\ previous_ticks' = previous_ticks]_vars

\* a TickSkip{1} was parsed after a player chunk, and a player chunk of cid 0
\* after it
C5_Witness ==
    /\ tick_index = 2
    /\ Len(previous_ticks) = 2
    /\ previous_ticks[1] = previous_ticks[2]
    /\ contains_key(previous_ticks[1].player_positions, 0)
    /\ last_cid = Some(0)
    /\ current_tick /= previous_ticks[2]

----------------------------------------------------------------------------
(* C6 *)

\* C6: the input vector stored for a cid is, slot by slot, the InputNew
\* vector plus all InputDiff deltas since, reduced modulo 2^32.
C6_WrapAround ==
    /\ DOMAIN input_total = DOMAIN current_tick.input_vectors
    /\ \A c \in DOMAIN current_tick.input_vectors : \A i \in 1 .. InputLen :
           current_tick.input_vectors[c][i] = from_limbs(input_total[c][i])

\* both ends of the i32 range were crossed by a diff
C6_Witness ==
    \E c \in DOMAIN current_tick.input_vectors :
        /\ current_tick.input_vectors[c][2] = I32_MIN + 2
        /\ current_tick.input_vectors[c][3] = I32_MAX - 1

----------------------------------------------------------------------------
(* C7 *)

\* C7: no parse_chunk call on a parser that is not finished panics.
C7_NoPanic == ~(parse_status = "panic" /\ ~finished)

----------------------------------------------------------------------------
(* C8 *)

\* C8: when parse_chunk returns an error or the decoder fails, the loop is
\* left and what is returned are the sequences completed before that chunk;
\* once the loop is left no chunk reaches the parser.
C8_AbortOnce ==
    [][/\ parse_status' \in ParseErrors =>
             pc' = "returned" /\ sequences' = with_teehist_path(completed_sequences)
       /\ (pc = "next_chunk" /\ pc' = "returned") =>
             sequences' = with_teehist_path(completed_sequences)
       /\ pc /= "next_chunk" =>
             UNCHANGED <<finished, tick_index, chunk_index, current_tick, previous_ticks,
                         active_sequences, completed_sequences, sequences>>]_vars

\* the loop was left on an error after a sequence had been completed
C8_Witness ==
    /\ pc = "returned"
    /\ parse_status \in ParseErrors
    /\ Len(sequences) >= 1
    /\ DOMAIN active_sequences /= {}

----------------------------------------------------------------------------
(* C9 *)

\* C9: a PlayerSwap, RejoinVer6 or TeamLoadSuccess chunk makes parse_chunk
\* return UnhandledChunkError and changes nothing of the parser.
C9_Unhandled ==
    [][\A t \in UnhandledTypes :
          (~finished /\ Feed([type |-> t], <<>>)) =>
              /\ parse_status' = "UnhandledChunkError"
              /\ UNCHANGED <<finished, tick_index, chunk_index, last_cid, current_tick,
                             previous_ticks, active_sequences, completed_sequences,
                             player_names>>]_vars

\* such a chunk arrived in the middle of a player's sequence
C9_Witness ==
    /\ parse_status = "UnhandledChunkError"
    /\ tick_index > 0
    /\ chunk_index > 0
    /\ DOMAIN active_sequences /= {}

----------------------------------------------------------------------------
(* C10 *)

----------------------------------------------------------------------------
(* C11 *)

----------------------------------------------------------------------------
(* C12 *)

\* C12: with cut_rescue, scenario S3 parses without error; from the rescue
\* command on there is a completed sequence of cid 0 that ends at the rescue
\* tick 1, and any other completed sequence starts two ticks later.
C12_S3_Rescue ==
    (cut_rescue /\ s3 >= 4) =>
        /\ parse_status = "Ok"
        /\ \E s \in Completed : s.cid = 0 /\ s.end_tick = Some(1)
        /\ \A s \in Completed : s.cid = 0 /\ (s.end_tick = Some(1) \/ s.start_tick = 3)

----------------------------------------------------------------------------
(* C13 *)

\* C13: a PlayerDiff whose dx or dy exceeds max_step in absolute value, parsed
\* at a tick at or after the start of the cid's active sequence, leaves the
\* cid with a new active sequence that starts at tick_index + 2; a sequence
\* it completes ends at tick_index and its last position is the one before
\* the diff.
C13_TeleportCut ==
    [][\A c \in PlayerDiffChunks :
          ( /\ ~finished
            /\ abs(c.dx) > MAX_STEP \/ abs(c.dy) > MAX_STEP
            /\ contains_key(active_sequences, c.cid)
            /\ Feed(c, <<>>)
            /\ parse_status' = "Ok"
            /\ tick_index' >= active_sequences[c.cid].start_tick )
          => /\ active_sequences'[c.cid] = DDNetSequence_new(c.cid, tick_index' + CUT_SKIP)
             /\ \A i \in Len(completed_sequences) + 1 .. Len(completed_sequences') :
                    /\ completed_sequences'[i].end_tick = Some(tick_index')
                    /\ completed_sequences'[i].player_positions[tick_index' - completed_sequences'[i].start_tick]
                           = current_tick.player_positions[c.cid]]_vars

----------------------------------------------------------------------------
(* C14 *)

\* the ticks [first, last] of the parent sequence that a sub-sequence covers
covers(sub, parent, first, last) ==
    sub.start_tick = parent.start_tick + first /\ sub.tick_count = last - first + 1

\* C14: cleaning the sequence of scenario S4 under its configuration yields
\* exactly three sub-sequences, of ticks [0..99], [100..199] and [815..914].
C14_S4_ThreeSubSequences ==
    (cleaner.pc /= "idle" /\ cleaner.sequence.move_dir = S4_move_dir
         /\ cleaner.config = S4_config /\ cleaner.pc /= "sequence")
    => /\ cleaner.pc = "cleaned"
       /\ Len(cleaner.sub_sequences) = 3
       /\ covers(cleaner.sub_sequences[1], cleaner.sequence, 0, 99)
       /\ covers(cleaner.sub_sequences[2], cleaner.sequence, 100, 199)
       /\ covers(cleaner.sub_sequences[3], cleaner.sequence, 815, 914)

----------------------------------------------------------------------------
(* C15 *)

\* C15: cutting a duration [s, e] to the length L gives floor((e - s + 1) / L)
\* sub-durations, the k-th (from 0) being [s + k * L, s + (k + 1) * L - 1],
\* all of them inside [s, e]; stated of every padded duration the cleaner
\* cuts.
C15_CutFromStart ==
    cleaner.pc = "cleaned" =>
        \A i \in 1 .. Len(cleaner.durations.padded) :
            LET d == cleaner.durations.padded[i]
                L == cleaner.config.seq_length
                subs == cut_duration(d, L)
            IN  /\ Len(subs) = (d.end - d.start + 1) \div L
                /\ \A k \in 1 .. Len(subs) :
                       /\ subs[k] = Duration_new(d.start + (k - 1) * L, d.start + k * L - 1)
                       /\ d.start <= subs[k].start /\ subs[k].end <= d.end

----------------------------------------------------------------------------
(* C16 *)

RECURSIVE sum_over(_, _)
sum_over(f, keys) ==
    IF keys = {} THEN 0
    ELSE LET key == CHOOSE x \in keys : TRUE
         IN  f[key] + sum_over(f, keys \ {key})

\* the place in `seqs` where `name` is seen first
first_sighting(seqs, name) ==
    CHOOSE i \in 1 .. Len(seqs) :
        /\ seqs[i].player_name = name
        /\ \A j \in 1 .. i - 1 : seqs[j].player_name /= name

\* the registry of e after add_to_dataset took the sequences `seqs`
registry_consistent(e, seqs) ==
    /\ DOMAIN e.players = { seqs[i].player_name : i \in 1 .. Len(seqs) }
    /\ e.player_count = Cardinality(DOMAIN e.players)
    /\ { e.players[n].player_id : n \in DOMAIN e.players } = 0 .. e.player_count - 1
    /\ \A n, m \in DOMAIN e.players :
           e.players[n].player_id < e.players[m].player_id
               <=> first_sighting(seqs, n) < first_sighting(seqs, m)
    /\ e.sequence_count = Len(seqs)
    /\ e.sequence_count
           = sum_over([n \in DOMAIN e.players |-> e.players[n].seq_count], DOMAIN e.players)
    /\ \A n \in DOMAIN e.players :
           e.players[n].seq_count
               = sum_over(e.players[n].timeout_codes, DOMAIN e.players[n].timeout_codes)

\* the registry `after` keeps every entry of `before` with its id
registry_kept(before, after) ==
    \A n \in DOMAIN before.players :
        /\ n \in DOMAIN after.players
        /\ after.players[n].player_id = before.players[n].player_id
        /\ after.players[n].seq_count >= before.players[n].seq_count

\* C16: after any sequence of add_to_dataset calls every name of the
\* registry has one id, the ids are 0 .. player_count - 1 in the order the
\* names were first seen, player_count is the number of entries,
\* sequence_count is the sum of the players' seq_count, each seq_count the
\* sum of the player's timeout histogram, and a later batch neither changes
\* nor deletes an id.
C16_RegistryConsistency ==
    /\ [](/\ registry_consistent(dry_exporter, added)
          /\ exporter.status = "Ok" => registry_consistent(exporter, added))
    /\ [][/\ registry_kept(exporter, exporter')
          /\ registry_kept(dry_exporter, dry_exporter')]_vars

\* two batches in, two players registered, one of them seen again
C16_Witness ==
    /\ Len(batches) = 2
    /\ exporter.status = "Ok"
    /\ exporter.player_count >= 2
    /\ \E n \in DOMAIN exporter.players : exporter.players[n].seq_count >= 2
    /\ \E n \in DOMAIN exporter.players :
           /\ exporter.players[n].player_id = 1
           /\ first_sighting(added, n) > 2

----------------------------------------------------------------------------
(* C17 *)

\* scenario S6 has run: exactly the two files with one sequence of Alice
\* each were exported, `first` before `second`, and each contributed one
\* sequence
S6_ran(first, second) ==
    /\ flatten(batches) = <<first, second>>
    /\ export_config.seq_length = 2
    /\ exporter.status = "Ok"

\* the rows of meta.csv
meta_rows == unwrap(exporter.meta_file)

\* both sequences are Alice's, with player_id 0 and seq_id 0 and 1
S6_alice ==
    /\ DOMAIN exporter.players = {"Alice"}
    /\ exporter.players["Alice"].player_id = 0
    /\ exporter.players["Alice"].seq_count = 2
    /\ Len(meta_rows) = 2
    /\ \A i \in 1 .. 2 : /\ meta_rows[i].seq_id = i - 1
                         /\ meta_rows[i].player_id = 0
                         /\ meta_rows[i].player = "Alice"

\* the stem of the file
stem(file) == unwrap(file[1].teehist_path)

\* C17 as stated: in scenario S6 both sequences get player_id 0, Alice's
\* seq_count is 2, and the sequence of the earlier file or batch gets seq_id
\* 0, the other seq_id 1.
C17_S6_BatchOrder ==
    \A first, second \in {File_a, File_b} :
        (first /= second /\ S6_ran(first, second)) =>
            /\ S6_alice
            /\ meta_rows[1].teehist = stem(first)
            /\ meta_rows[2].teehist = stem(second)

\* C17 (amended): in scenario S6 both sequences get player_id 0, Alice's
\* seq_count is 2 and the seq_ids are 0 and 1 in the order the sequences
\* reach add_to_dataset: with the files in two batches the sequence of the
\* earlier batch gets 0, with both files in one batch the sequence of the
\* later file gets 0.
C17_S6_ArrivalOrder ==
    \A first, second \in {File_a, File_b} :
        (first /= second /\ S6_ran(first, second)) =>
            /\ S6_alice
            /\ Len(batches) = 2 => /\ meta_rows[1].teehist = stem(first)
                                   /\ meta_rows[2].teehist = stem(second)
            /\ Len(batches) = 1 => /\ meta_rows[1].teehist = stem(second)
                                   /\ meta_rows[2].teehist = stem(first)

\* both files of S6 were exported in one batch
C17_Witness ==
    /\ S6_ran(File_a, File_b)
    /\ Len(batches) = 1
    /\ exporter.sequence_count = 2

----------------------------------------------------------------------------
(* C18 *)

----------------------------------------------------------------------------
(* C19 *)

\* the distinct codes of two histograms
codes(a, b) == DOMAIN a \cup DOMAIN b

\* the sum over the distinct codes of min(a_i, b_i)
sum_min(a, b) ==
    sum_over([c \in codes(a, b) |-> min_of(get_or_zero(a, c), get_or_zero(b, c))], codes(a, b))

\* the sum over the distinct codes of max(a_i, b_i)
sum_max(a, b) ==
    sum_over([c \in codes(a, b) |-> max_val(get_or_zero(a, c), get_or_zero(b, c))], codes(a, b))

\* the fraction `sim` is the quotient num / den, or 0 when den is 0
is_quotient(sim, num, den) ==
    IF den = 0 THEN sim[1] = 0 ELSE sim[1] * den = num * sim[2]

\* the result `r` of weighted_jaccard(a, b) is the weighted Jaccard
\* similarity and the number of shared codes
is_weighted_jaccard(r, a, b) ==
    /\ is_quotient(r.sim, sum_min(a, b), sum_max(a, b))
    /\ r.shared = Cardinality({ c \in codes(a, b) :
                                    get_or_zero(a, c) > 0 /\ get_or_zero(b, c) > 0 })

\* C19: for the timeout-code histograms a and b of every pair that
\* print_alias_candidates scores, weighted_jaccard(a, b) returns sim = (sum
\* over the distinct codes of min(a_i, b_i)) / (sum over the distinct codes
\* of max(a_i, b_i)), 0 when the denominator is 0, and shared = the number of
\* distinct codes with a positive count in both; a code of both histograms
\* is counted once.
C19_WeightedJaccard ==
    [][alias' /= alias =>
           \A p \in alias'.scored :
               is_weighted_jaccard([sim |-> p.wj, shared |-> p.shared],
                                   exporter.players[p.name_i].timeout_codes,
                                   exporter.players[p.name_j].timeout_codes)]_vars

----------------------------------------------------------------------------
(* C20 *)

\* the chunk closes the active sequence of its cid with drop = false; a
\* PlayerDiff above the threshold does so unless the sequence starts after
\* the tick the diff belongs to
closes_and_reopens(chunk) ==
    \/ chunk.type = "NetMessage" /\ chunk.msg.kind = "ClKill" /\ cut_kill
    \/ chunk.type = "ConsoleCommand" /\ chunk.cmd = "r" /\ cut_rescue
    \/ /\ chunk.type = "PlayerDiff"
       /\ high_diff(chunk)
       /\ contains_key(active_sequences, chunk.cid)
       /\ tick_index' >= active_sequences[chunk.cid].start_tick

\* the chunk was parsed with Ok while its cid had an active sequence
closed_by(chunk) ==
    /\ ~finished
    /\ contains_key(active_sequences, chunk.cid)
    /\ contains_key(current_tick.player_positions, chunk.cid)
    /\ Feed(chunk, <<>>)
    /\ parse_status' = "Ok"

\* C20: a close of the active sequence of cid at tick t with drop = true
\* (PlayerOld, Eos) removes the cid's position and leaves the cid without an
\* active sequence; with drop = false (ClKill with cut_kill, the command "r"
\* with cut_rescue, a PlayerDiff above the threshold) it keeps the position
\* and installs a new active sequence for cid with start_tick = t + 2, also
\* when the closed sequence is discarded.
C20_CloseDropOrReopen ==
    [][/\ \A c \in PlayerOldChunks :
              closed_by(c) =>
                  /\ ~contains_key(active_sequences', c.cid)
                  /\ ~contains_key(current_tick'.player_positions, c.cid)
       /\ \A cids \in key_orders(DOMAIN active_sequences) :
              (~finished /\ Feed([type |-> "Eos"], cids) /\ parse_status' = "Ok") =>
                  \A cid \in DOMAIN active_sequences :
                      /\ ~contains_key(active_sequences', cid)
                      /\ ~contains_key(current_tick'.player_positions, cid)
       /\ \A c \in NetMessageChunks \cup ConsoleCommandChunks \cup PlayerDiffChunks :
              (c.cid \in Cids /\ closes_and_reopens(c) /\ closed_by(c)) =>
                  /\ contains_key(current_tick'.player_positions, c.cid)
                  /\ c.type /= "PlayerDiff" =>
                         current_tick'.player_positions[c.cid]
                             = current_tick.player_positions[c.cid]
                  /\ active_sequences'[c.cid]
                         = DDNetSequence_new(c.cid, tick_index' + CUT_SKIP)]_vars

\* after a close with drop = false that discarded the closed sequence: the
\* cid has its position and a sequence that starts two ticks later
C20_Witness ==
    /\ parse_status = "Ok"
    /\ ~finished
    /\ tick_index >= 1
    /\ completed_sequences = <<>>
    /\ contains_key(active_sequences, 0)
    /\ active_sequences[0] = DDNetSequence_new(0, tick_index + CUT_SKIP)
    /\ contains_key(current_tick.player_positions, 0)

----------------------------------------------------------------------------
(* C21 *)

\* the chunk closes the active sequence of its cid
closes(chunk) == chunk.type = "PlayerOld" \/ closes_and_reopens(chunk)

CloseChunks ==
    PlayerOldChunks \cup NetMessageChunks \cup ConsoleCommandChunks \cup PlayerDiffChunks

\* C21: a close of an active sequence whose start_tick >= tick_index (at
\* the tick of the close) returns Ok and appends nothing to
\* completed_sequences, and no completed sequence has a non-positive span.
C21_NonPositiveSpanDiscarded ==
    /\ [](\A s \in Completed : unwrap(s.end_tick) > s.start_tick)
    /\ [][\A c \in CloseChunks :
              (/\ ~finished
               /\ c.cid \in Cids
               /\ contains_key(active_sequences, c.cid)
               /\ closes(c)
               /\ active_sequences[c.cid].start_tick >= tick_index'
               /\ Feed(c, <<>>)) =>
                  /\ parse_status' = "Ok"
                  /\ completed_sequences' = completed_sequences]_vars

\* a cut at tick 1 was discarded: a sequence opened at tick 0 cannot be
\* closed with Ok at tick 1, so the closed one had not started before it
C21_Witness ==
    /\ parse_status = "Ok"
    /\ ~finished
    /\ tick_index = 1
    /\ contains_key(active_sequences, 0)
    /\ active_sequences[0].start_tick = tick_index + CUT_SKIP
    /\ completed_sequences = <<>>

----------------------------------------------------------------------------
(* C22 *)

\* the ticks of the history `ticks` from `start` up to `end`, exclusive,
\* that hold an input vector for cid
ticks_with_input(ticks, cid, start, end) ==
    { i \in start + 1 .. end : contains_key(ticks[i].input_vectors, cid) }

\* C22: a close of an active sequence with positive span whose history
\* walk yields fewer than three input vectors returns Ok, appends nothing to
\* completed_sequences and parsing continues; every completed sequence has
\* at least three input vectors.
C22_ShortSequenceRejected ==
    /\ [](\A s \in Completed : Len(s.input_vectors) >= MIN_INPUTS)
    /\ [][\A c \in CloseChunks :
              (/\ ~finished
               /\ c.cid \in Cids
               /\ contains_key(active_sequences, c.cid)
               /\ contains_key(player_names, c.cid)
               /\ closes(c)
               /\ active_sequences[c.cid].start_tick < tick_index'
               /\ Feed(c, <<>>)
               /\ Cardinality(ticks_with_input(previous_ticks', c.cid,
                                               active_sequences[c.cid].start_tick,
                                               tick_index')) < MIN_INPUTS) =>
                  /\ parse_status' = "Ok"
                  /\ completed_sequences' = completed_sequences
                  /\ pc' = "next_chunk"]_vars

----------------------------------------------------------------------------
(* C23 *)

\* the chunk asks for a close of the active sequence of its cid
asks_close(chunk) ==
    \/ chunk.type = "PlayerOld"
    \/ chunk.type = "NetMessage" /\ chunk.msg.kind = "ClKill" /\ cut_kill
    \/ chunk.type = "ConsoleCommand" /\ chunk.cmd = "r" /\ cut_rescue

\* C23: a close for a cid without an active sequence (ClKill with cut_kill,
\* the command "r" with cut_rescue, PlayerOld without PlayerNew) returns
\* UnexpectedParserState and leaves the tick state, the active sequences and
\* the completed sequences unchanged.
C23_CloseAbsent ==
    [][\A c \in PlayerOldChunks \cup NetMessageChunks \cup ConsoleCommandChunks :
           (/\ ~finished
            /\ c.cid \in Cids
            /\ asks_close(c)
            /\ ~contains_key(active_sequences, c.cid)
            /\ Feed(c, <<>>)) =>
               /\ parse_status' = "UnexpectedParserState"
               /\ current_tick' = current_tick
               /\ active_sequences' = active_sequences
               /\ completed_sequences' = completed_sequences]_vars

\* the file ended with UnexpectedParserState while another cid was active
C23_Witness ==
    /\ parse_status = "UnexpectedParserState"
    /\ pc = "returned"
    /\ DOMAIN active_sequences = {1}
    /\ DOMAIN current_tick.player_positions = {1}
    /\ tick_index >= 1

----------------------------------------------------------------------------
(* C24 *)

\* C24: an InputNew for a cid that already has an input vector is
\* tolerated: the call returns Ok, parsing continues, and afterwards the
\* input vector of the cid is the new one.
C24_InputNewOverwrites ==
    [][\A c \in InputNewChunks :
           (/\ ~finished
            /\ contains_key(current_tick.input_vectors, c.cid)
            /\ Feed(c, <<>>)) =>
               /\ parse_status' = "Ok"
               /\ pc' = "next_chunk"
               /\ current_tick'.input_vectors[c.cid] = c.input]_vars

----------------------------------------------------------------------------
(* C25 *)

\* C25: a PlayerDiff for a cid that has no position is tolerated: the call
\* neither returns an error nor panics, the positions of the other cids are
\* unchanged, and parsing continues with the next chunk.
C25_PlayerDiffWithoutPosition ==
    [][\A c \in PlayerDiffChunks :
           (/\ ~finished
            /\ ~contains_key(current_tick.player_positions, c.cid)
            /\ Feed(c, <<>>)) =>
               /\ parse_status' = "Ok"
               /\ pc' = "next_chunk"
               /\ \A cid \in DOMAIN current_tick.player_positions :
                      /\ contains_key(current_tick'.player_positions, cid)
                      /\ current_tick'.player_positions[cid]
                             = current_tick.player_positions[cid]]_vars

----------------------------------------------------------------------------
(* C26 *)

\* C26: an InputDiff for a cid that has no input vector is dropped: the
\* tick state (inputs and positions of all cids), tick_index and the history
\* are unchanged, the cid gets no input vector, and parsing continues.
C26_InputDiffDropped ==
    [][\A c \in InputDiffChunks :
           (/\ ~finished
            /\ ~contains_key(current_tick.input_vectors, c.cid)
            /\ Feed(c, <<>>)) =>
               /\ current_tick' = current_tick
               /\ ~contains_key(current_tick'.input_vectors, c.cid)
               /\ tick_index' = tick_index
               /\ previous_ticks' = previous_ticks
               /\ parse_status' = "Ok"
               /\ pc' = "next_chunk"]_vars

\* the InputDiff of cid 0 in Stray was parsed: only cid 1 has an input
C26_Witness ==
    /\ decoder.preamble = SubSeq(Stray, 3, Len(Stray))
    /\ chunk_index = 2
    /\ parse_status = "Ok"
    /\ DOMAIN current_tick.input_vectors = {1}

----------------------------------------------------------------------------
(* C27 *)

\* the parser's sequences and tick state
cut_state(p) == <<p.active_sequences, p.completed_sequences, p.current_tick>>

\* C27: a ClKill net-message closes the active sequence of its cid only if
\* cut_kill is set, and a console command only if cut_rescue is set, the
\* command is "r" and its cid is not -1; in every other case the call
\* returns Ok and the active sequences, the completed sequences and the tick
\* state are unchanged.
C27_CutsGated ==
    [][/\ \A c \in NetMessageChunks :
              (~finished /\ c.msg.kind = "ClKill" /\ ~cut_kill /\ Feed(c, <<>>)) =>
                  parse_status' = "Ok" /\ cut_state(parser') = cut_state(parser)
       /\ \A c \in ConsoleCommandChunks :
              (/\ ~finished
               /\ (~cut_rescue \/ c.cmd /= "r" \/ c.cid = -1)
               /\ Feed(c, <<>>)) =>
                  parse_status' = "Ok" /\ cut_state(parser') = cut_state(parser)]_vars

\* the kill and the rescue of Stray were parsed with both cuts off: the
\* sequence of cid 0 is the one PlayerNew opened
C27_Witness ==
    /\ decoder.preamble = <<[type |-> "Eos"]>>
    /\ chunk_index = 5
    /\ ~cut_kill
    /\ ~cut_rescue
    /\ parse_status = "Ok"
    /\ active_sequences = (0 :> DDNetSequence_new(0, 0))
    /\ completed_sequences = <<>>

----------------------------------------------------------------------------
(* C28 *)

\* C28: finished is false from construction on and becomes true only when
\* an Eos chunk is parsed, never otherwise and never false again; after an
\* Eos that returns Ok finished is true, no sequence is active, and the
\* position of every cid that was active is removed.
C28_FinishedOnlyByEos ==
    /\ ~finished
    /\ [][/\ finished' /= finished =>
                 /\ finished'
                 /\ \E cids \in key_orders(DOMAIN active_sequences) :
                        Feed([type |-> "Eos"], cids)
          /\ \A cids \in key_orders(DOMAIN active_sequences) :
                 (~finished /\ Feed([type |-> "Eos"], cids) /\ parse_status' = "Ok") =>
                     /\ finished'
                     /\ active_sequences' = EmptyMap
                     /\ \A cid \in DOMAIN active_sequences :
                            ~contains_key(current_tick'.player_positions, cid)]_vars

\* the Eos of Stray was parsed with Ok: cid 0, active until then, has
\* neither a sequence nor a position
C28_Witness ==
    /\ decoder = [preamble |-> <<>>, free |-> 0]
    /\ chunk_index = Len(Stray)
    /\ DOMAIN current_tick.input_vectors = {1}
    /\ finished
    /\ parse_status = "Ok"
    /\ active_sequences = EmptyMap
    /\ current_tick.player_positions = EmptyMap

----------------------------------------------------------------------------
(* C29 *)

\* C29: Drop{cid} removes the input vector of the cid and leaves its
\* position, the active sequences, tick_index, the history and the completed
\* sequences unchanged; a position that is set is removed only by a
\* PlayerOld for its cid or by Eos.
C29_DropKeepsPosition ==
    [][/\ \A c \in DropChunks :
              (~finished /\ Feed(c, <<>>)) =>
                  /\ parse_status' = "Ok"
                  /\ current_tick'.input_vectors = remove(current_tick.input_vectors, c.cid)
                  /\ current_tick'.player_positions = current_tick.player_positions
                  /\ active_sequences' = active_sequences
                  /\ tick_index' = tick_index
                  /\ previous_ticks' = previous_ticks
                  /\ completed_sequences' = completed_sequences
       /\ \A cid \in Cids :
              (/\ contains_key(current_tick.player_positions, cid)
               /\ ~contains_key(current_tick'.player_positions, cid)) =>
                  \/ Feed([type |-> "PlayerOld", cid |-> cid], <<>>)
                  \/ \E cids \in key_orders(DOMAIN active_sequences) :
                         Feed([type |-> "Eos"], cids)]_vars

\* the Drop of Dropped was parsed: cid 0, with an input in the tick before,
\* has none now and still has its position and its sequence
C29_Witness ==
    /\ decoder.preamble = <<TickSkip0>>
    /\ chunk_index = Len(Dropped) - 1
    /\ parse_status = "Ok"
    /\ contains_key(previous_ticks[tick_index].input_vectors, 0)
    /\ ~contains_key(current_tick.input_vectors, 0)
    /\ contains_key(current_tick.player_positions, 0)
    /\ contains_key(active_sequences, 0)

----------------------------------------------------------------------------
(* C30 *)

\* the player moves at tick t of the series (ticks count from 0)
moves(series, t) == series[t + 1] /= 0

\* the durations `ds` are the non-AFK stretches of the series for the
\* threshold afk_ticks
non_afk_of(ds, series, afk_ticks) ==
    /\ \A i \in 1 .. Len(ds) :
           /\ 0 <= ds[i].start
           /\ ds[i].start <= ds[i].end
           /\ ds[i].end < Len(series)
           /\ moves(series, ds[i].start)
           /\ moves(series, ds[i].end)
           /\ \A t \in ds[i].start .. ds[i].end - afk_ticks :
                  \E u \in t .. t + afk_ticks : moves(series, u)
    /\ \A i \in 1 .. Len(ds) - 1 :
           ds[i + 1].start - ds[i].end - 1 > afk_ticks
    /\ \A t \in 0 .. Len(series) - 1 :
           moves(series, t) =>
               Cardinality({ i \in 1 .. Len(ds) : ds[i].start <= t /\ t <= ds[i].end }) = 1

\* C30: for every move_dir series and threshold afk_ticks,
\* get_non_afk_durations returns ordered, pairwise disjoint inclusive
\* durations; each starts and ends on a tick with move_dir /= 0, every tick
\* with move_dir /= 0 lies in exactly one of them, no run of zeros inside a
\* duration is longer than afk_ticks, and more than afk_ticks zeros separate
\* two consecutive durations.
C30_NonAfkDurations ==
    cleaner.pc \in {"cleaned", "panicked"} =>
        non_afk_of(cleaner.durations.non_afk, cleaner.sequence.move_dir,
                   cleaner.config.afk_ticks)

\* two durations were found, the first with an idle tick inside
C30_Witness ==
    /\ cleaner.pc = "cleaned"
    /\ Len(cleaner.durations.non_afk) = 2
    /\ \E t \in cleaner.durations.non_afk[1].start .. cleaner.durations.non_afk[1].end :
           ~moves(cleaner.sequence.move_dir, t)

----------------------------------------------------------------------------
(* C31 *)

\* the durations `ds` are ordered and pairwise disjoint, inside 0 .. max_tick
ordered_disjoint(ds, max_tick) ==
    /\ \A i \in 1 .. Len(ds) :
           0 <= ds[i].start /\ ds[i].start <= ds[i].end /\ ds[i].end <= max_tick
    /\ \A i \in 1 .. Len(ds) - 1 : ds[i].end < ds[i + 1].start

\* `out` pads the durations `ds` by at most margin ticks on each side
padded_of(out, ds, max_tick, margin) ==
    /\ Len(out) = Len(ds)
    /\ ordered_disjoint(out, max_tick)
    /\ \A i \in 1 .. Len(out) :
           /\ out[i].start <= ds[i].start
           /\ ds[i].start - out[i].start <= margin
           /\ ds[i].end <= out[i].end
           /\ out[i].end - ds[i].end <= margin
           /\ i < Len(ds) => out[i].end < ds[i + 1].start
           /\ i > 1 => out[i].start > out[i - 1].end

\* C31: for ordered, disjoint input durations, pad_durations returns
\* durations inside [0, tick_count - 1] that are pairwise non-overlapping in
\* order, extend each input by at most margin ticks on each side, never end
\* at or after the next input duration's unpadded start, and never start at
\* or before the previous adjusted end.
C31_PadDurations ==
    (/\ cleaner.pc \in {"cleaned", "panicked"}
     /\ ordered_disjoint(cleaner.durations.non_afk, cleaner.sequence.tick_count - 1))
        => padded_of(cleaner.durations.padded, cleaner.durations.non_afk,
                     cleaner.sequence.tick_count - 1, cleaner.config.afk_padding)

\* two durations were padded: the first is clamped at tick 0 and stopped
\* short of its margin by the second, whose start was moved behind it
C31_Witness ==
    /\ cleaner.pc = "cleaned"
    /\ Len(cleaner.durations.non_afk) = 2
    /\ Len(cleaner.durations.padded) = 2
    /\ cleaner.durations.non_afk[1].start < cleaner.config.afk_padding
    /\ cleaner.durations.padded[1].start = 0
    /\ cleaner.durations.padded[1].end
           < cleaner.durations.non_afk[1].end + cleaner.config.afk_padding
    /\ cleaner.durations.padded[2].start = cleaner.durations.padded[1].end + 1
    /\ cleaner.durations.padded[2].start
           > cleaner.durations.non_afk[2].start - cleaner.config.afk_padding

----------------------------------------------------------------------------
(* C32 *)

\* C32: every sub-sequence the cleaning closure of handle_batch returns has
\* tick_count exactly seq_length, with a tick column of that length; a
\* sequence of fewer than seq_length ticks is counted in min_count_fail and
\* skipped before the cleaning, so it has no sub-sequence.
C32_SubSequenceLength ==
    /\ [](/\ cleaner.pc = "cleaned" =>
                 \A i \in 1 .. Len(cleaner.sub_sequences) :
                     /\ cleaner.sub_sequences[i].tick_count = cleaner.config.seq_length
                     /\ Len(cleaner.sub_sequences[i].move_dir) = cleaner.config.seq_length
          /\ cleaner.pc \in {"cleaned", "panicked"} =>
                 /\ cleaner.sequence.tick_count >= cleaner.config.seq_length
                 /\ cleaner.min_count_fail = 0
          /\ cleaner.pc = "skipped" => cleaner.min_count_fail = 1)
    /\ [][(cleaner.pc = "sequence"
              /\ cleaner.sequence.tick_count < cleaner.config.seq_length)
             => cleaner'.pc = "skipped"]_vars

\* a sequence of five ticks was cleaned with seq_length 2: one duration was
\* cut into two sub-sequences and its last tick left over
C32_Witness ==
    /\ cleaner.pc = "cleaned"
    /\ cleaner.config.seq_length = 2
    /\ cleaner.sequence.tick_count = 5
    /\ Len(cleaner.durations.padded) = 1
    /\ tick_count(cleaner.durations.padded[1]) = 5
    /\ Len(cleaner.sub_sequences) = 2

----------------------------------------------------------------------------
(* C33 *)

\* the DDNetSequences of the files handled so far
handled == { flatten(flatten(batches))[k] : k \in 1 .. Len(flatten(flatten(batches))) }

\* the sub-sequence lies in the DDNetSequence d of its file
cut_from(sub, d) ==
    /\ sub.teehist_name = unwrap(d.teehist_path)
    /\ d.start_tick <= sub.start_tick
    /\ sub.start_tick + sub.tick_count <= unwrap(d.end_tick)

\* the input vector of d at tick i of the sub-sequence (counted from 1)
input_at(sub, d, i) == d.input_vectors[sub.start_tick - d.start_tick + i]

odd(v) == v % 2 = 1

\* C33: in every sequence built, fire[i] is true exactly when slot 4 of the
\* input at tick i is odd, for every 32-bit value of the slot, negative ones
\* included; jump and hook are true exactly when their slot is 1.
C33_FireOdd ==
    \A k \in 1 .. Len(added) :
        \A d \in handled :
            cut_from(added[k], d) =>
                \A i \in 1 .. added[k].tick_count :
                    /\ added[k].fire[i] <=> odd(input_at(added[k], d, i)[5])
                    /\ added[k].jump[i] <=> (input_at(added[k], d, i)[4] = 1)
                    /\ added[k].hook[i] <=> (input_at(added[k], d, i)[6] = 1)

----------------------------------------------------------------------------
(* C34 *)

\* C34: the workers share no mutable state, each file is parsed by a Parser
\* of its own, and the vector of DDNetSequences collected for the batch is,
\* under every interleaving of the workers, one that parsing the paths
\* sequentially in their order gives; a worker returns or unwinds only as
\* the sequential parsing of its file may, and a step of one worker changes
\* no other job.
C34_ParallelAsSequential ==
    /\ [](is_some(pool.sequence_batch) =>
              unwrap(pool.sequence_batch) \in sequential(pool.paths, pool.config))
    /\ [](\A i \in 1 .. Len(pool.jobs) :
              /\ pool.jobs[i].at = "returned" =>
                     [panicked |-> FALSE, sequences |-> pool.jobs[i].sequences]
                         \in get_ddnet_sequences(pool.paths[i], pool.config)
              /\ pool.jobs[i].at = "panicked" =>
                     \E e \in get_ddnet_sequences(pool.paths[i], pool.config) : e.panicked)
    /\ [][\A i, j \in 1 .. Len(pool.jobs) :
              (i /= j /\ pool.jobs'[i] /= pool.jobs[i]) => pool.jobs'[j] = pool.jobs[j]]_vars

\* three files were parsed and collected; the first path is the file of two
\* players, whose Eos closed the sequence of cid 1 before that of cid 0
C34_Witness ==
    /\ Len(pool.paths) = 3
    /\ pool.paths[1].stem = "c"
    /\ is_some(pool.sequence_batch)
    /\ Len(unwrap(pool.sequence_batch)) = 4
    /\ unwrap(pool.sequence_batch)[1].teehist_path = Some("c")
    /\ unwrap(pool.sequence_batch)[1].cid = 1

----------------------------------------------------------------------------
(* C35 *)

\* C35: in every reachable parser state the history holds exactly tick_index
\* snapshots; no chunk decreases tick_index, and no chunk changes a snapshot
\* that is already in the history.
C35_HistoryGrowsOnly ==
    /\ [](Len(previous_ticks) = tick_index)
    /\ [][/\ tick_index' >= tick_index
          /\ Len(previous_ticks') >= Len(previous_ticks)
          /\ SubSeq(previous_ticks', 1, Len(previous_ticks)) = previous_ticks]_vars

\* three ticks are in the history and a player chunk came after the last
\* explicit one; the snapshots differ and the current tick has moved on from
\* the last of them
C35_Witness ==
    /\ parse_status = "Ok"
    /\ tick_index = 3
    /\ is_some(last_cid)
    /\ previous_ticks[1] /= previous_ticks[2]
    /\ previous_ticks[2] /= previous_ticks[3]
    /\ current_tick /= previous_ticks[3]

----------------------------------------------------------------------------
(* C36 *)

\* C36: between chunks, the cids with an active sequence are the cids with a
\* position in the current tick; so a close with drop_player (PlayerOld, Eos)
\* of a cid with an active sequence finds the position it removes, and takes
\* the sequence and the position away together.
C36_ActiveHasPosition ==
    /\ [](DOMAIN active_sequences = DOMAIN current_tick.player_positions)
    /\ [][\A c \in PlayerOldChunks :
              (~finished /\ contains_key(active_sequences, c.cid) /\ Feed(c, <<>>))
                  => /\ contains_key(current_tick.player_positions, c.cid)
                     /\ ~contains_key(active_sequences', c.cid)
                     /\ ~contains_key(current_tick'.player_positions, c.cid)]_vars
    /\ [][\A cids \in key_orders(DOMAIN active_sequences) :
              (~finished /\ Feed([type |-> "Eos"], cids) /\ parse_status' = "Ok")
                  => /\ active_sequences' = EmptyMap
                     /\ current_tick'.player_positions = EmptyMap]_vars

\* two players had joined and cid 0 left with PlayerOld: its sequence and
\* its position are gone, its input is still in the current tick, and the
\* sequence and the position of cid 1 remain
C36_Witness ==
    /\ parse_status = "Ok"
    /\ ~finished
    /\ DOMAIN active_sequences = {1}
    /\ DOMAIN current_tick.player_positions = {1}
    /\ contains_key(current_tick.input_vectors, 0)
    /\ last_cid = Some(0)
    /\ tick_index = 3

----------------------------------------------------------------------------
(* C37 *)

\* the sequences the step appended to completed_sequences
appended == { completed_sequences'[k] : k \in Len(completed_sequences) + 1 .. Len(completed_sequences') }

\* C37: two completed sequences of the same cid have disjoint ranges
\* [start_tick, end_tick) and stand in completed_sequences in the order of
\* their ticks; the cid's active sequence starts no earlier than they end.
\* A completed sequence starts no earlier than it was opened, and a cut (kill,
\* rescue, teleport) that completes a sequence opens the next one CUT_SKIP = 2
\* ticks after its end_tick, so a sequence opened by a cut starts at least 2
\* ticks after the end of the one the cut closed.
C37_SequencesOfCidDisjoint ==
    /\ [](\A i, j \in 1 .. Len(completed_sequences) :
              (i < j /\ completed_sequences[i].cid = completed_sequences[j].cid)
                  => unwrap(completed_sequences[i].end_tick) <= completed_sequences[j].start_tick)
    /\ [](\A s \in Completed :
              contains_key(active_sequences, s.cid)
                  => active_sequences[s.cid].start_tick >= unwrap(s.end_tick))
    /\ [][\A s \in appended :
              /\ contains_key(active_sequences, s.cid)
              /\ s.start_tick >= active_sequences[s.cid].start_tick]_vars
    /\ [][\A c \in CloseChunks :
              (~finished /\ closes_and_reopens(c) /\ Feed(c, <<>>) /\ appended /= {})
                  => /\ contains_key(active_sequences', c.cid)
                     /\ \A s \in appended :
                            /\ s.cid = c.cid
                            /\ active_sequences'[c.cid].start_tick
                                   = unwrap(s.end_tick) + CUT_SKIP]_vars

\* the kill closed the sequence [0, 3) of cid 0 and the sequence it opened
\* was completed as [5, 8)
C37_Witness ==
    /\ decoder.preamble = <<>>
    /\ Len(completed_sequences) = 2
    /\ completed_sequences[1].cid = 0
    /\ completed_sequences[2].cid = 0
    /\ completed_sequences[1].start_tick = 0
    /\ completed_sequences[1].end_tick = Some(3)
    /\ completed_sequences[2].start_tick = 5
    /\ completed_sequences[2].end_tick = Some(8)

----------------------------------------------------------------------------
(* C38 *)

\* what the walk of complete_active_sequence collects when the chunk closes
\* the active sequence of cid, on the history as the chunk leaves it
walked_at_close(cid) ==
    walk_ticks(skip_take(previous_ticks', active_sequences[cid].start_tick,
                         tick_index' - active_sequences[cid].start_tick),
               cid, active_sequences[cid])

\* no step between two collected positions is above the threshold of the
\* teleport cut, `dx > 500 || dy > 500`
admitted_by_cut(positions) ==
    \A v \in velocities(positions, 1) \cup velocities(positions, 2) : ~(v > MAX_STEP)

\* C38: the threshold of the teleport cut and the bound of the velocity
\* assertion admit the same steps: when a sequence is closed whose collected
\* positions hold no step above the cut's threshold (a step of exactly 500
\* included), the assertion of complete_active_sequence does not fail.
C38_ThresholdsAgree ==
    [][\A c \in CloseChunks :
          ( /\ ~finished
            /\ c.cid \in Cids
            /\ contains_key(active_sequences, c.cid)
            /\ contains_key(player_names, c.cid)
            /\ closes(c)
            /\ Feed(c, <<>>)
            /\ active_sequences[c.cid].start_tick < tick_index'
            /\ ~walked_at_close(c.cid).panicked
            /\ Len(walked_at_close(c.cid).sequence.player_positions) >= 2
            /\ admitted_by_cut(walked_at_close(c.cid).sequence.player_positions) )
          => parse_status' /= "panic"]_vars

----------------------------------------------------------------------------
(* C39 *)

\* every sequence the step appended bears the name recorded for its cid
named_at_close ==
    \A s \in appended :
        /\ contains_key(player_names', s.cid)
        /\ s.player_name = Some(player_names'[s.cid])

\* C39: a close of an active sequence with positive span for a cid for which
\* no StartInfo has recorded a name returns Ok, so parsing goes on; and a
\* completed sequence bears the name most recently recorded for its cid at
\* the time of the close.
C39_CloseWithoutName ==
    /\ [][\A c \in CloseChunks :
              ( /\ ~finished
                /\ c.cid \in Cids
                /\ contains_key(active_sequences, c.cid)
                /\ ~contains_key(player_names, c.cid)
                /\ closes(c)
                /\ Feed(c, <<>>)
                /\ active_sequences[c.cid].start_tick < tick_index' )
              => parse_status' = "Ok" /\ pc' = "next_chunk"]_vars
    /\ [][named_at_close]_vars

----------------------------------------------------------------------------
(* The loop of get_ddnet_sequences after the end of the stream.            *)

\* C40: once the parser is finished the loop takes no further chunk from
\* the decoder and makes no further parse_chunk call: from a finished parser
\* neither the decoder nor the parser changes.
C40_NoChunkAfterEos ==
    [][finished => (decoder' = decoder /\ parser' = parser)]_vars

====
